---- MODULE Spec2Model ----
(***************************************************************************)
(* A model of the Pink Trombone synthesis engine (PinkTrombone, TractShaper, *)
(* Tract, Glottis and the filtered noise sources).                          *)
(*                                                                         *)
(* Numbers.  f32 and f64 values are modelled as fixed-point integers: the   *)
(* integer x stands for the real x / Scale.  Every arithmetic operation is  *)
(* computed in the order the source computes it and rounded to the nearest  *)
(* multiple of 1/Scale (the source rounds to the nearest float).  The       *)
(* intrinsics sin, cos, exp, ln, powf and sqrt are computed by the          *)
(* polynomial approximations Sin, Exp2, Ln and Sqrt below, accurate to      *)
(* about 2/Scale.  u32 values that take part in the overflow guard of the   *)
(* constructor are pairs <<hi, lo>> of 16-bit limbs.                        *)
(***************************************************************************)
EXTENDS Integers, Sequences, FiniteSets, TLC

(***************************************************************************)
(* Fixed-point arithmetic                                                  *)
(***************************************************************************)
Scale == 10^4
Half == Scale \div 2
Huge == 10^9

Abs(x) == IF x < 0 THEN -x ELSE x
Sgn(x) == IF x < 0 THEN -1 ELSE 1
Min2(a, b) == IF a < b THEN a ELSE b
Max2(a, b) == IF a > b THEN a ELSE b
Clamp(x, lo, hi) == IF x < lo THEN lo ELSE IF x > hi THEN hi ELSE x
Sat(x) == Clamp(x, -Huge, Huge)

\* a * b, rounded to nearest; the operands are split so that no partial
\* product leaves the 32-bit range of the checker's integers.  A product
\* beyond Huge is the float's infinity, modelled as +-Huge.
Mul(a, b) ==
    LET ah == a \div Scale
        al == a % Scale
        bh == b \div Scale
        bl == b % Scale
    IN  IF bh # 0 /\ bh # -1 /\ Abs(ah) >= 100000 \div Abs(bh)
        THEN Sgn(a) * Sgn(b) * Huge
        ELSE Sat(ah * bh * Scale + ah * bl + al * bh
                 + (al * bl + Half) \div Scale)

\* x / y for x >= 0, y > 0 (long division, rounded to nearest).
DivPos(x, y) ==
    LET q == x \div y
        r == x % y
    IN  IF y <= 200000 THEN q * Scale + (r * Scale + y \div 2) \div y
        ELSE IF y <= 20000000 THEN q * Scale + (r * 100) \div (y \div 100)
        ELSE q * Scale + r \div (y \div Scale)

\* a / b.  A zero divisor gives the float's infinity, modelled as +-Huge.
Div(a, b) ==
    IF b = 0 THEN Sgn(a) * Huge
    ELSE IF Abs(a) \div Abs(b) >= 100000 THEN Sgn(a) * Sgn(b) * Huge
    ELSE Sgn(a) * Sgn(b) * DivPos(Abs(a), Abs(b))

\* The integer n as a float.
Num(n) == n * Scale

\* The float n / d of two non-negative integers, d > 0.
Ratio(n, d) == (n * Scale + d \div 2) \div d

RECURSIVE ISqrtIter(_, _)
ISqrtIter(n, x) ==
    LET y == (x + n \div x) \div 2
    IN  IF y >= x THEN x ELSE ISqrtIter(n, y)

\* sqrt(x); the square root of a negative float is NaN, modelled as 0.
Sqrt(x) == IF x <= 0 THEN 0 ELSE ISqrtIter(x * Scale, x * Scale)

PI == 31416
TWO_PI == 2 * PI
HALF_PI == PI \div 2

\* sin(x): range reduction to [-pi/2, pi/2], then the Taylor polynomial of
\* degree 7.
SinPoly(x) ==
    LET x2 == Mul(x, x)
        t3 == Scale - x2 \div 42
        t2 == Scale - Mul(x2 \div 20, t3)
        t1 == Scale - Mul(x2 \div 6, t2)
    IN  Mul(x, t1)

Sin(x) ==
    LET r == x % TWO_PI
        s == IF r > PI THEN r - TWO_PI ELSE r
        f == IF s > HALF_PI THEN PI - s
             ELSE IF s < -HALF_PI THEN -PI - s ELSE s
    IN  SinPoly(f)

Cos(x) == Sin(x + HALF_PI)

\* 2^y: the integer part of y shifts, the fractional part goes through a
\* cubic fitted to 2^f on [0, 1).
Exp2(y) ==
    LET n == y \div Scale
        f == y % Scale
        m == Scale + Mul(f, 6958 + Mul(f, 2251 + Mul(f, 791)))
    IN  IF n >= 16 THEN Huge
        ELSE IF n >= 0 THEN m * 2^n
        ELSE IF n <= -30 THEN 0
        ELSE (m + 2^(-n - 1)) \div 2^(-n)

\* e^x = 2^(x log2 e), log2 e = 1.4427.
Exp(x) == Exp2(Mul(Clamp(x, -400000, 400000), 14427))

\* ln(y) for y in [1, 2): 2 atanh((y - 1) / (y + 1)), to the fifth power.
LnMantissa(m) ==
    LET z == Div(m - Scale, m + Scale)
        z2 == Mul(z, z)
    IN  2 * Mul(z, Scale + Mul(z2, 3333 + Mul(z2, 2000)))

RECURSIVE LnNorm(_, _)
LnNorm(y, k) ==
    IF y >= 2 * Scale THEN LnNorm(y \div 2, k + 1)
    ELSE IF y < Scale THEN LnNorm(y * 2, k - 1)
    ELSE k * 6931 + LnMantissa(y)

\* ln(y); ln of a non-positive float is -infinity or NaN, modelled as -Huge.
Ln(y) == IF y <= 0 THEN -Huge ELSE LnNorm(y, 0)

\* i0 + v * (i1 - i0)
interpolate(i0, i1, v) == i0 + Mul(v, i1 - i0)

\* A move by the whole amount, past the target where it is nearer.
MoveTowardsPast(current, target, amount_up, amount_down) ==
    IF current < target THEN current + amount_up ELSE current - amount_down

move_towards(current, target, amount_up, amount_down) ==
    IF current < target THEN Min2(target, current + amount_up)
    ELSE Max2(target, current - amount_down)

\* x * x.  It is only applied to diameters; the square keeps all its digits,
\* so it is in units of 1 / Scale^2.
sqr(v) == v * v

\* The float 1e-6 in the units of sqr.
AreaEpsilon == (Scale * Scale) \div 10^6

(***************************************************************************)
(* u32 values as pairs <<hi, lo>> of 16-bit limbs                          *)
(***************************************************************************)
Limb == 2^16

U32(hi, lo) == <<hi, lo>>
U32_ZERO == U32(0, 0)
U32_MAX == U32(Limb - 1, Limb - 1)
\* u32::MAX / 2 (integer division) = 0x7FFF_FFFF
U32_MAX_HALF == U32(Limb \div 2 - 1, Limb - 1)

U32Ge(a, b) == a[1] > b[1] \/ (a[1] = b[1] /\ a[2] >= b[2])

\* 2 * a as the pair <<carry, product mod 2^32>>; carry = 1 is the overflow.
U32Double(a) ==
    LET lo == 2 * a[2]
        hi == 2 * a[1] + lo \div Limb
    IN  <<hi \div Limb, U32(hi % Limb, lo % Limb)>>

\* x / (r as float), for a float x with |x| < 2^30 / Scale.
DivByRate(v, r) ==
    IF r[1] >= Limb \div 2 THEN 0
    ELSE LET d == r[1] * Limb + r[2]
         IN  IF d = 0 THEN Sgn(v) * Huge
             ELSE Sgn(v) * ((Abs(v) + d \div 2) \div d)

\* x * (r as float); within the bounds of the model x = 0 whenever r does not
\* fit the checker's integers.
MulByRate(v, r) ==
    IF v = 0 THEN 0
    ELSE IF r[1] >= 2^10 THEN Sgn(v) * Huge
    ELSE v * (r[1] * Limb + r[2])

(***************************************************************************)
(* The injected NoiseSource and the filtered noise generators (noise.rs)   *)
(***************************************************************************)
\* The k-th value of the injected source with the given seed: a uniform
\* value in [0, 1).  The engine may not depend on which source it is given.
RngValue(seed, k) == ((k + seed) * 7919 + (k \div 3) * 4099) % Scale

new_bandpass_filter(f0, q, sample_rate) ==
    LET w0 == DivByRate(Mul(TWO_PI, f0), sample_rate)
        alpha == Div(Sin(w0), 2 * q)
        b0 == alpha
        b1 == 0
        b2 == -alpha
        a0 == Scale + alpha
        a1 == -2 * Cos(w0)
        a2 == Scale - alpha
    IN  [nb0 |-> Div(b0, a0), nb1 |-> Div(b1, a0), nb2 |-> Div(b2, a0),
         na1 |-> Div(a1, a0), na2 |-> Div(a2, a0),
         x1 |-> 0, x2 |-> 0, y1 |-> 0, y2 |-> 0]

\* BiquadIirFilter::filter: <<the filter afterwards, y>>
Filter(f, v) ==
    LET y == Sat(Mul(f.nb0, v) + Mul(f.nb1, f.x1) + Mul(f.nb2, f.x2)
                 - Mul(f.na1, f.y1) - Mul(f.na2, f.y2))
    IN  <<[f EXCEPT !.x2 = f.x1, !.x1 = v, !.y2 = f.y1, !.y1 = y], y>>

\* The looped buffer holds the loop_size values 2u - 1 drawn from the source
\* at construction; it is kept as the place of its first value in the
\* source's sequence, element j being drawn from place first + j.
new_looped_white_noise(loop_size, r) ==
    [seed |-> r.seed, first |-> r.draws, len |-> loop_size, current_index |-> 0]

LoopedNoiseElement(b, j) == 2 * RngValue(b.seed, b.first + j) - Scale

\* A buffer that starts over one call late: when current_index has passed
\* the length, not when it has reached it.
LoopedNoiseWrapsLate(b) ==
    LET idx == IF b.current_index > b.len THEN 0 ELSE b.current_index
    IN  <<[b EXCEPT !.current_index = idx + 1], LoopedNoiseElement(b, idx)>>

\* LoopedNoiseBuffer::noise: <<the buffer afterwards, the value>>
LoopedNoise(b) ==
    LET idx == IF b.current_index >= b.len THEN 0 ELSE b.current_index
    IN  <<[b EXCEPT !.current_index = idx + 1], LoopedNoiseElement(b, idx)>>

new_filtered_noise_source(f0, q, sample_rate, loop_size, r) ==
    [white_noise |-> new_looped_white_noise(loop_size, r),
     filter |-> new_bandpass_filter(f0, q, sample_rate)]

\* The source's state after the loop_size draws of the construction.
RngAfterSource(loop_size, r) == [r EXCEPT !.draws = r.draws + loop_size]

\* One call of the boxed closure: <<the source afterwards, the sample>>
FilteredNoise(s) ==
    LET w == LoopedNoise(s.white_noise)
        f == Filter(s.filter, w[2])
    IN  <<[white_noise |-> w[1], filter |-> f[1]], f[2]>>

\* NoiseGenerator::simplex (noise_gen.rs): a smooth value in [-1, 1] that is
\* a function of the seed and of t alone: lattice values, blended linearly.
SimplexLattice(seed, k) ==
    (((k * 7349 + seed * 131 + k * k * 17) % 2001) - 1000) * 10

simplex(seed, t) ==
    LET k == t \div Scale
    IN  interpolate(SimplexLattice(seed, k), SimplexLattice(seed, k + 1), t % Scale)

(***************************************************************************)
(* Glottis (glottis.rs)                                                    *)
(***************************************************************************)
\* Glottis::setup_waveform
setup_waveform(g, lambda) ==
    LET frequency == interpolate(g.old_frequency, g.new_frequency, lambda)
        tenseness == interpolate(g.old_tenseness, g.new_tenseness, lambda)
        rd == Clamp(3 * (Scale - tenseness), 5000, 27000)
        \* normalized to time = 1, Ee = 1
        ra == -100 + Mul(480, rd)
        rk == 2240 + Mul(1180, rd)
        rg == Div(Mul(Div(rk, 40000), 5000 + Mul(12000, rk)),
                  Mul(1100, rd) - Mul(ra, 5000 + Mul(12000, rk)))
        ta == ra
        tp == Div(Scale, 2 * rg)
        te == tp + Mul(tp, rk)
        epsilon == Div(Scale, ta)
        shift == Exp(Mul(-epsilon, Scale - te))
        delta == Scale - shift
        rhs_integral ==
            Div(Mul(Div(Scale, epsilon), shift - Scale) + Mul(Scale - te, shift),
                delta)
        total_lower_integral == rhs_integral - Div(te - tp, 20000)
        total_upper_integral == -total_lower_integral
        omega == Div(PI, tp)
        s == Sin(Mul(omega, te))
        y == Div(Mul(Mul(-PI, s), total_upper_integral), Mul(tp, 20000))
        z == Ln(y)
        alpha == Div(z, Div(tp, 20000) - te)
        e0 == Div(-Scale, Mul(s, Exp(Mul(alpha, te))))
    IN  [g EXCEPT !.waveform_length = Div(Scale, frequency),
                  !.loudness = Sqrt(Sqrt(Max2(tenseness, 0))),
                  !.alpha = alpha, !.e0 = e0, !.epsilon = epsilon,
                  !.shift = shift, !.delta = delta, !.te = te,
                  !.omega = omega]

\* Glottis::normalized_lf_waveform
normalized_lf_waveform(g, t) ==
    LET output ==
            IF t > g.te
            THEN Div(-Exp(Mul(-g.epsilon, t - g.te)) + g.shift, g.delta)
            ELSE Mul(Mul(g.e0, Exp(Mul(g.alpha, t))), Sin(Mul(g.omega, t)))
    IN  Mul(Mul(output, g.intensity), g.loudness)

\* Glottis::get_noise_modulator
get_noise_modulator(g) ==
    LET voiced ==
            1000 + Mul(2000,
                Max2(0, Sin(Div(Mul(TWO_PI, g.time_in_waveform),
                                g.waveform_length))))
    IN  Mul(Mul(g.target_tenseness, g.intensity), voiced)
        + Mul(Scale - Mul(g.target_tenseness, g.intensity), 3000)

\* Glottis::new
GlottisNew(sample_rate, r, seed) ==
    setup_waveform(
        [always_voice |-> TRUE,
         auto_wobble |-> TRUE,
         is_touched |-> FALSE,
         target_tenseness |-> 6000,
         target_frequency |-> Num(140),
         vibrato_amount |-> 50,
         vibrato_frequency |-> Num(6),
         noise_generator |-> seed,
         sample_rate |-> sample_rate,
         sample_count |-> 0,
         intensity |-> 0,
         loudness |-> Scale,
         smooth_frequency |-> Num(140),
         time_in_waveform |-> 0,
         old_tenseness |-> 6000,
         new_tenseness |-> 6000,
         old_frequency |-> Num(140),
         new_frequency |-> Num(140),
         aspiration_noise_source |->
             new_filtered_noise_source(Num(500), 5000, sample_rate, 32768, r),
         waveform_length |-> 0,
         alpha |-> 0, e0 |-> 0, epsilon |-> 0, shift |-> 0, delta |-> 0,
         te |-> 0, omega |-> 0],
        0)

\* Glottis::set_musical_note
set_musical_note(g, semitone) ==
    [g EXCEPT !.target_frequency = Mul(Num(440), Exp2(Div(semitone, Num(12))))]

\* Glottis::step from the noise sample on, g being the glottis after the
\* waveform has been set up anew where it had to be and asp what the
\* aspiration noise source gave.
GlottisStepOutput(g, time, asp) ==
    LET out1 == normalized_lf_waveform(
                    g, Div(g.time_in_waveform, g.waveform_length))
        asp_noise == asp[2]
        aspiration1 ==
            Mul(Mul(Mul(g.intensity, Scale - Sqrt(g.target_tenseness)),
                    get_noise_modulator(g)),
                asp_noise)
        aspiration2 ==
            Mul(aspiration1,
                2000 + Mul(200, simplex(g.noise_generator, Mul(time, 19900))))
        result == out1 + aspiration2
    IN  <<[g EXCEPT !.aspiration_noise_source = asp[1],
                    !.sample_count = g.sample_count + 1,
                    !.time_in_waveform =
                        g.time_in_waveform + DivByRate(Scale, g.sample_rate)],
          Sat(result)>>

GlottisStepWaveform(g, time) ==
    GlottisStepOutput(g, time, FilteredNoise(g.aspiration_noise_source))

\* A step that sets the waveform up anew where the period is over, but
\* leaves the time in the waveform as it is.
GlottisStepPhaseKept(g, lambda) ==
    GlottisStepWaveform(
        IF g.time_in_waveform > g.waveform_length
        THEN setup_waveform(g, lambda)
        ELSE g,
        DivByRate(Num(g.sample_count), g.sample_rate))

\* A step that sets the waveform up anew whether the period is over or not.
GlottisStepSetsUpAlways(g, lambda) ==
    GlottisStepWaveform(
        setup_waveform(
            IF g.time_in_waveform > g.waveform_length
            THEN [g EXCEPT !.time_in_waveform =
                               g.time_in_waveform - g.waveform_length]
            ELSE g,
            lambda),
        DivByRate(Num(g.sample_count), g.sample_rate))

\* Glottis::step: <<the glottis afterwards, the sample>>
GlottisStep(g, lambda) ==
    GlottisStepWaveform(
        IF g.time_in_waveform > g.waveform_length
        THEN setup_waveform(
                 [g EXCEPT !.time_in_waveform =
                               g.time_in_waveform - g.waveform_length],
                 lambda)
        ELSE g,
        DivByRate(Num(g.sample_count), g.sample_rate))

\* An adjustment that raises the intensity but does not clamp it.
AdjustIntensityUnclamped(g, delta) ==
    [g EXCEPT !.intensity = g.intensity + Mul(1300, delta)]

\* Glottis::adjust_intensity
adjust_intensity(g, delta) ==
    LET raw == IF g.is_touched \/ g.always_voice
               THEN g.intensity + Mul(1300, delta)
               ELSE g.intensity - Mul(500, delta)
    IN  [g EXCEPT !.intensity = Clamp(raw, 0, Scale)]

\* Glottis::calculate_vibrato
calculate_vibrato(g, time) ==
    LET seed == g.noise_generator
        v0 == Mul(g.vibrato_amount,
                  Sin(Mul(Mul(TWO_PI, time), g.vibrato_frequency)))
        v1 == v0 + Mul(200, simplex(seed, Mul(time, 40700)))
        v2 == v1 + Mul(400, simplex(seed, Mul(time, 21500)))
    IN  IF g.auto_wobble
        THEN v2 + Mul(2000, simplex(seed, Mul(time, 9600)))
                + Mul(4000, simplex(seed, Mul(time, 5000)))
        ELSE v2

\* Glottis::calculate_new_frequency
calculate_new_frequency(g, time, delta_time) ==
    LET smooth ==
            IF g.intensity = 0 THEN g.target_frequency
            ELSE IF g.target_frequency > g.smooth_frequency
            THEN Min2(g.target_frequency,
                      Mul(g.smooth_frequency, Scale + Mul(1000, delta_time)))
            ELSE IF g.target_frequency < g.smooth_frequency
            THEN Max2(g.target_frequency,
                      Div(g.smooth_frequency, Scale + Mul(1000, delta_time)))
            ELSE g.smooth_frequency
    IN  [g EXCEPT !.smooth_frequency = smooth,
                  !.old_frequency = g.new_frequency,
                  !.new_frequency =
                      Max2(Mul(smooth, Scale + calculate_vibrato(g, time)),
                           Num(10))]

\* Glottis::calculate_new_tenseness
calculate_new_tenseness(g, time) ==
    LET seed == g.noise_generator
        t0 == g.target_tenseness
              + Mul(1000, simplex(seed, Mul(time, 4600)))
              + Mul(500, simplex(seed, Mul(time, 3600)))
        t1 == Max2(t0, 0)
        t2 == IF ~g.is_touched /\ g.always_voice
              THEN t1 + Mul(Num(3) - g.target_tenseness, Scale - g.intensity)
              ELSE t1
    IN  [g EXCEPT !.old_tenseness = g.new_tenseness, !.new_tenseness = t2]

\* Glottis::adjust_parameters
adjust_parameters(g, delta_time) ==
    LET delta == (MulByRate(delta_time, g.sample_rate) + 256) \div 512
        old_time == DivByRate(Num(g.sample_count), g.sample_rate)
        new_time == old_time + delta_time
    IN  calculate_new_tenseness(
            calculate_new_frequency(adjust_intensity(g, delta), new_time, delta),
            new_time)

(***************************************************************************)
(* Tract (tract.rs)                                                        *)
(***************************************************************************)
N == 44
NOSE_LEN == 28
NOSE_START == N - NOSE_LEN + 1
BLADE_START == 10
TIP_START == 32
LIP_START == 39
GLOTTAL_REFLECTION == 7500
LIP_REFLECTION == -8500
FRICATIVE_ATTACK_TIME == 1000

Segments == 0 .. N - 1
NoseSegments == 0 .. NOSE_LEN - 1

Zeros(n) == [i \in 0 .. n - 1 |-> 0]

\* The array f with the elements lo .. hi, every element computed once.
RECURSIVE Array(_, _, _)
Array(f, lo, hi) ==
    IF lo = hi THEN lo :> f[lo] ELSE (lo :> f[lo]) @@ Array(f, lo + 1, hi)

\* Tract::new
TractNew(sample_rate, r) ==
    [sample_rate |-> sample_rate,
     frication_noise_source |->
         new_filtered_noise_source(Num(1000), 5000, sample_rate, 32768, r),
     transients |-> <<>>,
     turbulence_points |-> <<>>,
     sample_count |-> 0,
     time |-> 0,
     left |-> Zeros(N),
     right |-> Zeros(N),
     reflection |-> Zeros(N),
     new_reflection |-> Zeros(N),
     junction_output_right |-> Zeros(N),
     justion_output_left |-> Zeros(N + 1),
     max_amplitude |-> Zeros(N),
     diameter |-> Zeros(N),
     nose_right |-> Zeros(NOSE_LEN),
     nose_left |-> Zeros(NOSE_LEN),
     nose_junction_output_right |-> Zeros(NOSE_LEN),
     nose_junction_output_left |-> Zeros(NOSE_LEN + 1),
     nose_reflection |-> Zeros(NOSE_LEN),
     nose_diameter |-> Zeros(NOSE_LEN),
     nose_max_amplitude |-> Zeros(NOSE_LEN),
     reflection_left |-> 0,
     reflection_right |-> 0,
     new_reflection_left |-> 0,
     new_reflection_right |-> 0,
     reflection_nose |-> 0,
     new_reflection_nose |-> 0]

\* Tract::calculate_nose_reflections
calculate_nose_reflections(t) ==
    LET a == [i \in NoseSegments |-> Max2(AreaEpsilon, sqr(t.nose_diameter[i]))]
    IN  [t EXCEPT !.nose_reflection =
            [i \in NoseSegments |->
                IF i = 0 THEN t.nose_reflection[0]
                ELSE Div(a[i - 1] - a[i], a[i - 1] + a[i])]]

\* A recalculation from the diameters themselves in place of their squares
MainTractReflectionsOfDiameters(t) ==
    LET a == [i \in Segments |-> t.diameter[i]]
    IN  [t EXCEPT
            !.reflection =
                [i \in Segments |->
                    IF i = 0 THEN t.reflection[0] ELSE t.new_reflection[i]],
            !.new_reflection =
                [i \in Segments |->
                    IF i = 0 THEN t.new_reflection[0]
                    ELSE LET sum == a[i - 1] + a[i]
                         IN  IF Abs(sum) > AreaEpsilon
                             THEN Div(a[i - 1] - a[i], sum)
                             ELSE Scale]]

\* A recalculation that leaves the current generation of the main tract as
\* it is: only the new generation is written.
MainTractReflectionsNotCopied(t) ==
    LET a == [i \in Segments |-> sqr(t.diameter[i])]
    IN  [t EXCEPT
            !.new_reflection =
                [i \in Segments |->
                    IF i = 0 THEN t.new_reflection[0]
                    ELSE LET sum == a[i - 1] + a[i]
                         IN  IF Abs(sum) > AreaEpsilon
                             THEN Div(a[i - 1] - a[i], sum)
                             ELSE Scale]]

\* Tract::calculate_main_tract_reflections
calculate_main_tract_reflections(t) ==
    LET a == [i \in Segments |-> sqr(t.diameter[i])]
    IN  [t EXCEPT
            !.reflection =
                [i \in Segments |->
                    IF i = 0 THEN t.reflection[0] ELSE t.new_reflection[i]],
            !.new_reflection =
                [i \in Segments |->
                    IF i = 0 THEN t.new_reflection[0]
                    ELSE LET sum == a[i - 1] + a[i]
                         IN  IF Abs(sum) > AreaEpsilon
                             THEN Div(a[i - 1] - a[i], sum)
                             ELSE Scale]]

\* Tract::calculate_nose_junction_reflections
calculate_nose_junction_reflections(t) ==
    LET velum_a == sqr(t.nose_diameter[0])
        an0 == sqr(t.diameter[NOSE_START])
        an1 == sqr(t.diameter[NOSE_START + 1])
        sum == an0 + an1 + velum_a
        open == Abs(sum) > AreaEpsilon
    IN  [t EXCEPT
            !.reflection_left = t.new_reflection_left,
            !.reflection_right = t.new_reflection_right,
            !.reflection_nose = t.new_reflection_nose,
            !.new_reflection_left =
                IF open THEN Div(2 * an0 - sum, sum) ELSE Scale,
            !.new_reflection_right =
                IF open THEN Div(2 * an1 - sum, sum) ELSE Scale,
            !.new_reflection_nose =
                IF open THEN Div(2 * velum_a - sum, sum) ELSE Scale]

\* Tract::calculate_new_block_parameters
TractCalculateNewBlockParameters(t) ==
    calculate_nose_junction_reflections(calculate_main_tract_reflections(t))

\* Vec::remove(i), on a sequence counted from 1
RemoveAt(seq, i) == SubSeq(seq, 1, i - 1) \o SubSeq(seq, i + 1, Len(seq))

\* What a transient of the given age adds to its segment.
TransientAmplitude(trans, time_alive) ==
    Mul(trans.strength, Exp2(Mul(-trans.exponent, time_alive)))

\* A loop that passes over a transient past its life_time without removing
\* it.
RECURSIVE ProcessTransientsNoneRemoved(_, _)
ProcessTransientsNoneRemoved(t, i) ==
    IF i = 0 THEN t
    ELSE LET trans == t.transients[i]
             time_alive == t.time - trans.start_time
             amplitude == TransientAmplitude(trans, time_alive)
         IN  IF time_alive > trans.life_time
             THEN ProcessTransientsNoneRemoved(t, i - 1)
             ELSE ProcessTransientsNoneRemoved(
                      [t EXCEPT
                          !.right[trans.position] = Sat(@ + Mul(amplitude, 5000)),
                          !.left[trans.position] = Sat(@ + Mul(amplitude, 5000))],
                      i - 1)

\* Tract::process_transients: the loop, from its last index i down to the
\* first.
RECURSIVE ProcessTransientsFrom(_, _)
ProcessTransientsFrom(t, i) ==
    IF i = 0 THEN t
    ELSE LET trans == t.transients[i]
             time_alive == t.time - trans.start_time
             amplitude == TransientAmplitude(trans, time_alive)
         IN  IF time_alive > trans.life_time
             THEN ProcessTransientsFrom(
                      [t EXCEPT !.transients = RemoveAt(t.transients, i)],
                      i - 1)
             ELSE ProcessTransientsFrom(
                      [t EXCEPT
                          !.right[trans.position] = Sat(@ + Mul(amplitude, 5000)),
                          !.left[trans.position] = Sat(@ + Mul(amplitude, 5000))],
                      i - 1)

process_transients(t) == ProcessTransientsFrom(t, Len(t.transients))

\* A thinness that is 1 up to the diameter 0.6 and falls to 0 at 0.7
ThinnessFromSixTenths(diameter) ==
    Clamp(Mul(Num(10), 7000 - diameter), 0, Scale)

\* add_turbulence_noise_at_position: thinnes0 and openness
Thinness(diameter) == Clamp(Mul(Num(8), 7000 - diameter), 0, Scale)
Openness(diameter) == Clamp(Mul(Num(30), diameter - 3000), 0, Scale)

\* An injection into the segments floor(position) and floor(position) + 1
AddTurbulenceNoiseStraddling(t, turbulence_noise, position, diameter) ==
    LET i == position \div Scale
        delta == position - Num(i)
        thinnes0 == Thinness(diameter)
        openness == Openness(diameter)
        noise0 == Mul(Mul(Mul(turbulence_noise, Scale - delta), thinnes0),
                      openness)
        noise1 == Mul(Mul(Mul(turbulence_noise, delta), thinnes0), openness)
        Add(w, idx, v) ==
            IF idx < N THEN [w EXCEPT ![idx] = Sat(@ + Mul(v, 5000))] ELSE w
    IN  [t EXCEPT
            !.right = Add(Add(t.right, i, noise0), i + 1, noise1),
            !.left = Add(Add(t.left, i, noise0), i + 1, noise1)]

\* Tract::add_turbulence_noise_at_position
add_turbulence_noise_at_position(t, turbulence_noise, position, diameter) ==
    LET i == position \div Scale
        delta == position - Num(i)
        thinnes0 == Thinness(diameter)
        openness == Openness(diameter)
        noise0 == Mul(Mul(Mul(turbulence_noise, Scale - delta), thinnes0),
                      openness)
        noise1 == Mul(Mul(Mul(turbulence_noise, delta), thinnes0), openness)
        Add(w, idx, v) ==
            IF idx < N THEN [w EXCEPT ![idx] = Sat(@ + Mul(v, 5000))] ELSE w
    IN  [t EXCEPT
            !.right = Add(Add(t.right, i + 1, noise0), i + 2, noise1),
            !.left = Add(Add(t.left, i + 1, noise0), i + 2, noise1)]

\* Whether the first loop of add_turbulence_noise skips the point p, and the
\* envelope it computes for it otherwise.
TurbulenceIntensity(t, p) ==
    Clamp(IF p.end_time.nan
          THEN Div(t.time - p.start_time, FRICATIVE_ATTACK_TIME)
          ELSE Scale - Div(t.time - p.end_time.v, FRICATIVE_ATTACK_TIME),
          0, Scale)

TurbulenceSkipped(t, p) ==
    \/ p.position < Num(2)
    \/ p.position > Num(N)
    \/ p.diameter <= 0
    \/ TurbulenceIntensity(t, p) <= 0

\* Tract::add_turbulence_noise, first loop from point k on: <<the frication
\* source afterwards, the (noise, position, diameter) triples collected>>
RECURSIVE CollectTurbulence(_, _, _, _, _)
CollectTurbulence(t, g, k, src, acc) ==
    IF k > Len(t.turbulence_points) THEN <<src, acc>>
    ELSE LET p == t.turbulence_points[k]
             drawn == FilteredNoise(src)
             turbulence_noise ==
                 Mul(Mul(Mul(6600, drawn[2]), TurbulenceIntensity(t, p)),
                     get_noise_modulator(g))
         IN  IF TurbulenceSkipped(t, p)
             THEN CollectTurbulence(t, g, k + 1, src, acc)
             ELSE CollectTurbulence(t, g, k + 1, drawn[1],
                      Append(acc, <<turbulence_noise, p.position, p.diameter>>))

\* Tract::add_turbulence_noise, second loop
RECURSIVE ApplyTurbulence(_, _, _)
ApplyTurbulence(t, noises, k) ==
    IF k > Len(noises) THEN t
    ELSE ApplyTurbulence(
             add_turbulence_noise_at_position(
                 t, noises[k][1], noises[k][2], noises[k][3]),
             noises, k + 1)

add_turbulence_noise(t, g) ==
    LET c == CollectTurbulence(t, g, 1, t.frication_noise_source, <<>>)
    IN  ApplyTurbulence([t EXCEPT !.frication_noise_source = c[1]], c[2], 1)

\* Tract::step, the end of its two loops that move the waves on: the tract
\* afterwards and the sample, given the junction outputs out and the moved
\* waves.
TractStepAmplitudes(t, out, waves) ==
    LET max_amplitude ==
            [i \in Segments |->
                Max2(Mul(t.max_amplitude[i], 9999),
                     Abs(waves.right[i] + waves.left[i]))]
        lip_output == waves.right[N - 1]
        nose_max_amplitude ==
            [i \in NoseSegments |->
                Max2(Mul(t.nose_max_amplitude[i], 9999),
                     Abs(waves.nose_right[i] + waves.nose_left[i]))]
        nose_output == waves.nose_right[NOSE_LEN - 1]
        sample_count == t.sample_count + 1
    IN  <<[t EXCEPT
              !.junction_output_right = out.junction_output_right,
              !.justion_output_left = out.justion_output_left,
              !.right = waves.right,
              !.left = waves.left,
              !.max_amplitude = Array(max_amplitude, 0, N - 1),
              !.nose_junction_output_right = out.nose_junction_output_right,
              !.nose_junction_output_left = out.nose_junction_output_left,
              !.nose_right = waves.nose_right,
              !.nose_left = waves.nose_left,
              !.nose_max_amplitude = Array(nose_max_amplitude, 0, NOSE_LEN - 1),
              !.sample_count = sample_count,
              !.time = DivByRate(Num(sample_count), t.sample_rate)],
          Sat(lip_output + nose_output)>>

\* Tract::step, its two loops that move the waves on, given the junction
\* outputs.
TractStepMove(t, out) ==
    TractStepAmplitudes(
        t, out,
        [right |->
             Array([i \in Segments |-> Mul(out.junction_output_right[i], 9990)],
                   0, N - 1),
         left |->
             Array([i \in Segments |-> Mul(out.justion_output_left[i + 1], 9990)],
                   0, N - 1),
         nose_right |-> out.nose_junction_output_right,
         nose_left |->
             Array([i \in NoseSegments |-> out.nose_junction_output_left[i + 1]],
                   0, NOSE_LEN - 1)])

\* Tract::step, the junction outputs given the scattered parts w of the main
\* tract and nw of the nose.  The loop over the interior junctions also
\* writes the two outputs of junction NOSE_START, and the three-way junction
\* then overwrites them: only the latter is kept.
TractStepOutputs(t, glottal_output, lambda, w, nw) ==
    LET j == NOSE_START
        rl == interpolate(t.reflection_left, t.new_reflection_left, lambda)
        rr == interpolate(t.reflection_right, t.new_reflection_right, lambda)
        rn == interpolate(t.reflection_nose, t.new_reflection_nose, lambda)
        junction_output_right ==
            [i \in Segments |->
                IF i = 0
                THEN Sat(Mul(t.left[0], GLOTTAL_REFLECTION) + glottal_output)
                ELSE IF i = j
                THEN Sat(Mul(rr, t.left[j])
                         + Mul(Scale + rr, Sat(t.right[j - 1] + t.nose_left[0])))
                ELSE Sat(t.right[i - 1] - w[i])]
        justion_output_left ==
            [i \in 0 .. N |->
                IF i = 0 THEN t.justion_output_left[0]
                ELSE IF i = N THEN Mul(t.right[N - 1], LIP_REFLECTION)
                ELSE IF i = j
                THEN Sat(Mul(rl, t.right[j - 1])
                         + Mul(Scale + rl, Sat(t.nose_left[0] + t.left[j])))
                ELSE Sat(t.left[i] + w[i])]
        nose_junction_output_right ==
            [i \in NoseSegments |->
                IF i = 0
                THEN Sat(Mul(rn, t.nose_left[0])
                         + Mul(Scale + rn, Sat(t.left[j] + t.right[j - 1])))
                ELSE Sat(t.nose_right[i - 1] - nw[i])]
        nose_junction_output_left ==
            [i \in 0 .. NOSE_LEN |->
                IF i = 0 THEN t.nose_junction_output_left[0]
                ELSE IF i = NOSE_LEN
                THEN Mul(t.nose_right[NOSE_LEN - 1], LIP_REFLECTION)
                ELSE Sat(t.nose_left[i] + nw[i])]
    IN  TractStepMove(
            t,
            [junction_output_right |-> Array(junction_output_right, 0, N - 1),
             justion_output_left |-> Array(justion_output_left, 0, N),
             nose_junction_output_right |->
                 Array(nose_junction_output_right, 0, NOSE_LEN - 1),
             nose_junction_output_left |->
                 Array(nose_junction_output_left, 0, NOSE_LEN)])

\* The scattered part w of every interior junction of the main tract:
\* r * (right[i - 1] + left[i]), r interpolated between the two generations
Scattered(t, lambda) ==
    [i \in 1 .. N - 1 |->
        Mul(interpolate(t.reflection[i], t.new_reflection[i], lambda),
            Sat(t.right[i - 1] + t.left[i]))]

\* The scattered part w of every junction of the nose
NoseScattered(t) ==
    [i \in 1 .. NOSE_LEN - 1 |->
        Mul(t.nose_reflection[i], Sat(t.nose_right[i - 1] + t.nose_left[i]))]

\* Tract::step once the transients and the turbulence are in
TractStepJunctions(t, glottal_output, lambda) ==
    TractStepOutputs(t, glottal_output, lambda,
                     Array(Scattered(t, lambda), 1, N - 1),
                     Array(NoseScattered(t), 1, NOSE_LEN - 1))

\* Tract::step: <<the tract afterwards, the sample>>
TractStep(t0, g, glottal_output, lambda) ==
    TractStepJunctions(add_turbulence_noise(process_transients(t0), g),
                       glottal_output, lambda)

(***************************************************************************)
(* TractShaper (tract_shaper.rs).  The shaper owns the tract; in the model  *)
(* the two are separate records and an operation on both takes and gives    *)
(* the pair [shaper, tract].                                                *)
(***************************************************************************)
GRID_OFFSET == 17000
MOVEMENT_SPEED == 150000

\* TractShaper::set_velum_open
set_velum_open(sh, velum_open) ==
    [sh EXCEPT !.velum_target =
        IF velum_open THEN sh.velum_open_target ELSE sh.velum_closed_target]

\* TractShaper::shape_noise
shape_noise(st, velum_open) ==
    LET sh == set_velum_open(st.shaper, velum_open)
        Diameter(i) ==
            LET d == Div(Num(i) * 2, Num(NOSE_LEN))
            IN  IF i = 0 THEN sh.velum_target
                ELSE IF d < Scale THEN 4000 + Mul(16000, d)
                ELSE 5000 + Mul(15000, Num(2) - d)
    IN  [shaper |-> sh,
         tract |-> [st.tract EXCEPT !.nose_diameter =
                       [i \in NoseSegments |-> Min2(Diameter(i), 19000)]]]

\* TractShaper::get_rest_diameter
get_rest_diameter(sh, i) ==
    LET t == Div(Mul(Mul(11000, PI), sh.tongue_index - Num(i)),
                 Num(TIP_START - BLADE_START))
        fixed_tongue_diameter == Num(2) + Div(sh.tongue_diameter - Num(2), 15000)
        curve0 == Mul(15000 - fixed_tongue_diameter + GRID_OFFSET, Cos(t))
        curve1 == IF i = BLADE_START - 2 \/ i = LIP_START - 1
                  THEN Mul(curve0, 8000) ELSE curve0
        curve2 == IF i = BLADE_START \/ i = LIP_START - 2
                  THEN Mul(curve1, 9400) ELSE curve1
    IN  IF i < 7 THEN 6000
        ELSE IF i < BLADE_START THEN 11000
        ELSE IF i >= LIP_START THEN 15000
        ELSE 15000 - curve2

\* TractShaper::shape_main_tract
shape_main_tract(st) ==
    LET d == [i \in Segments |-> get_rest_diameter(st.shaper, i)]
    IN  [shaper |-> [st.shaper EXCEPT !.target_diameter = d],
         tract |-> [st.tract EXCEPT !.diameter = d]]

\* A constructor that calculates the nose reflections last, when the velum
\* has been closed again.
TractShaperNewVelumClosed(tract) ==
    LET res == [shaper |->
                    [velum_open_target |-> 4000,
                     velum_closed_target |-> 100,
                     velum_target |-> 0,
                     tongue_index |-> 129000,
                     tongue_diameter |-> 24300,
                     last_obstruction |-> -1,
                     target_diameter |-> Zeros(N)],
                tract |-> tract]
        closed == shape_noise(shape_noise(res, TRUE), FALSE)
        reflected == [closed EXCEPT
                         !.tract = calculate_nose_reflections(closed.tract)]
    IN  shape_main_tract(reflected)

\* TractShaper::new
TractShaperNew(tract) ==
    LET res == [shaper |->
                    [velum_open_target |-> 4000,
                     velum_closed_target |-> 100,
                     velum_target |-> 0,
                     tongue_index |-> 129000,
                     tongue_diameter |-> 24300,
                     last_obstruction |-> -1,
                     target_diameter |-> Zeros(N)],
                tract |-> tract]
        opened == shape_noise(res, TRUE)
        \* (nose reflections are calculated only once, but with open velum)
        reflected == [opened EXCEPT
                         !.tract = calculate_nose_reflections(opened.tract)]
    IN  shape_main_tract(shape_noise(reflected, FALSE))

\* TractShaper::add_transient
add_transient(t, position) ==
    [t EXCEPT !.transients =
        Append(t.transients,
               [position |-> position,
                start_time |-> t.time,
                life_time |-> 2000,
                strength |-> 3000,
                exponent |-> Num(200)])]

\* A loop that takes only a diameter below 0 for an obstruction.
RECURSIVE NewLastObstructionBelowZero(_, _, _)
NewLastObstructionBelowZero(diameter, i, acc) ==
    IF i = N THEN acc
    ELSE NewLastObstructionBelowZero(diameter, i + 1,
                                     IF diameter[i] < 0 THEN i ELSE acc)

\* A loop that keeps the first closed segment it meets.
RECURSIVE NewFirstObstruction(_, _, _)
NewFirstObstruction(diameter, i, acc) ==
    IF i = N THEN acc
    ELSE NewFirstObstruction(diameter, i + 1,
                             IF diameter[i] <= 0 /\ acc < 0 THEN i ELSE acc)

\* The first loop of adjust_tract_shape as far as new_last_obstruction goes:
\* its value after the segments i .. N - 1, given its value acc before them.
RECURSIVE NewLastObstruction(_, _, _)
NewLastObstruction(diameter, i, acc) ==
    IF i = N THEN acc
    ELSE NewLastObstruction(diameter, i + 1,
                            IF diameter[i] <= 0 THEN i ELSE acc)

SlowReturn(i) ==
    IF i < NOSE_START THEN 6000
    ELSE IF i >= TIP_START THEN Scale
    ELSE 6000 + Div(Mul(4000, Num(i - NOSE_START)), Num(TIP_START - NOSE_START))

\* TractShaper::adjust_tract_shape
adjust_tract_shape(st, delta_time) ==
    LET sh == st.shaper
        t == st.tract
        amount == Mul(delta_time, MOVEMENT_SPEED)
        new_last_obstruction == NewLastObstruction(t.diameter, 0, -1)
        moved == [t EXCEPT !.diameter =
                     [i \in Segments |->
                         move_towards(t.diameter[i], sh.target_diameter[i],
                                      Mul(SlowReturn(i), amount), 2 * amount)]]
        released == IF /\ sh.last_obstruction >= 0
                       /\ new_last_obstruction < 0
                       /\ t.nose_diameter[0] < 2230
                    THEN add_transient(moved, sh.last_obstruction)
                    ELSE moved
    IN  [shaper |-> [sh EXCEPT !.last_obstruction = new_last_obstruction],
         tract |-> [released EXCEPT !.nose_diameter[0] =
                       move_towards(t.nose_diameter[0], sh.velum_target,
                                    Mul(amount, 2500), Mul(amount, 1000))]]

(***************************************************************************)
(* PinkTrombone (trombone.rs)                                              *)
(***************************************************************************)
MAX_BLOCK_LEN == 512

VARIABLES
    pc,           \* where the caller is: "start" (nothing constructed yet),
                  \* "panic" (new panicked), "idle" (between calls), "synth"
                  \* (synthesize, at the head of its while loop), "block"
                  \* (synthesize_block, at the head of its for loop)
    new_arg,      \* the sample_rate the constructor was called with
    rng,          \* the injected NoiseSource: its seed and the draws so far
    sample_rate,  \* PinkTrombone::sample_rate
    shaper,       \* PinkTrombone::shaper, but for its tract
    tract,        \* TractShaper::tract, but for its glottis
    glottis,      \* Tract::glottis
    buf,          \* synthesize's buffer: for each index the values written
                  \* to it during the call, in order
    p,            \* synthesize's p
    block,        \* synthesize_block's locals: the chunk's length, i, and
                  \* delta_time, lambda1, lambda2, glottal_output, vocal1 and
                  \* vocal2 as last computed
    chunks,       \* the chunks of the current synthesize call so far, each
                  \* with its start, its length and the recomputations run
    calls,        \* the calls made on the engine since its construction
    samples,      \* the samples synthesized since the construction
    pushed,       \* the transients pushed since the construction
    op,           \* the last operation called
    source        \* a filtered noise source built on its own, by code of
                  \* the crate, and the number k of the calls made on it

vars == <<pc, new_arg, rng, sample_rate, shaper, tract, glottis, buf, p, block,
          chunks, calls, samples, pushed, op, source>>

engine_vars == <<sample_rate, shaper, tract, glottis>>
call_vars == <<buf, p, block, chunks>>

\* What a variable holds before new has returned: no engine, and no rate
None == [none |-> TRUE]
NoRate == <<>>
NoBlock == [len |-> 0, i |-> 0, delta_time |-> 0, lambda1 |-> 0, lambda2 |-> 0,
            glottal_output |-> 0, vocal1 |-> 0, vocal2 |-> 0]

\* The engine as one value: the shaper, its tract and the tract's glottis.
Engine == [shaper |-> shaper, tract |-> tract, glottis |-> glottis]

\* A constructor whose first guard is sample_rate > u32::MAX / 2: it lets
\* u32::MAX / 2 itself through.
NewPanicsAboveHalf(rate) ==
    (U32Ge(rate, U32_MAX_HALF) /\ rate # U32_MAX_HALF) \/ rate = U32_ZERO

\* The two guards of PinkTrombone::new
NewPanics(rate) == U32Ge(rate, U32_MAX_HALF) \/ rate = U32_ZERO

\* A constructor that hands the tract sample_rate itself
TractRateNotDoubled(rate) == rate

\* The rate PinkTrombone::new hands to Tract::new: 2 * sample_rate
TractRate(rate) == U32Double(rate)[2]

\* The guard of Tract::new
TractNewPanics(rate) == rate = U32_ZERO

\* PinkTrombone::new past its guards: the engine and the noise source after
PinkTromboneNew(rate, r, seed) ==
    LET g == GlottisNew(rate, r, seed)
        r1 == RngAfterSource(32768, r)
        t == TractNew(TractRate(rate), r1)
        r2 == RngAfterSource(32768, r1)
        st == TractShaperNew(t)
    IN  [shaper |-> st.shaper, tract |-> st.tract, glottis |-> g, rng |-> r2]

\* PinkTrombone::calculate_new_block_parameters
calculate_new_block_parameters(e, delta_time) ==
    LET g == adjust_parameters(e.glottis, delta_time)
        st == adjust_tract_shape([shaper |-> e.shaper, tract |-> e.tract],
                                 delta_time)
    IN  [shaper |-> st.shaper,
         tract |-> TractCalculateNewBlockParameters(st.tract),
         glottis |-> g]

\* A synthesize whose chunks are one sample longer than MAX_BLOCK_LEN allows
BlockLenOneMore(len, pos) == Min2(len - pos, MAX_BLOCK_LEN + 1)

\* synthesize: block_len
BlockLen(len, pos) == Min2(len - pos, MAX_BLOCK_LEN)

\* synthesize_block: delta_time
DeltaTime(len, rate) == DivByRate(Num(len), rate)

\* synthesize_block: lambda1 and lambda2 of sample i of a chunk of length len
Lambda1(i, len) == Div(Num(i), Num(len))
Lambda2(i, len) == Div(Num(i) + 5000, Num(len))

\* synthesize_block: buf[i] of a turn of the for loop
Sample(vocal1, vocal2) == Mul(vocal1 + vocal2, 1250)

\* synthesize_block: one turn of the for loop from the second Tract step on,
\* g and v1 being what the Glottis step and the first Tract step returned.
\* The engine afterwards and the loop's locals.
SynthesizeSampleEnd(e, g, v1, v2, lambda1, lambda2) ==
    [engine |-> [shaper |-> e.shaper, tract |-> v2[1], glottis |-> g[1]],
     lambda1 |-> lambda1, lambda2 |-> lambda2,
     glottal_output |-> g[2], vocal1 |-> v1[2], vocal2 |-> v2[2],
     sample |-> Sample(v1[2], v2[2])]

\* A turn of the for loop that steps the glottis a second time, with
\* lambda2, and feeds the second Tract step with what that step returned.
SynthesizeSampleSecondGlottis(e, g2, v1, lambda1, lambda2) ==
    SynthesizeSampleEnd(e, g2, v1, TractStep(v1[1], g2[1], g2[2], lambda2),
                        lambda1, lambda2)

SynthesizeSampleTwoGlottisSteps(e, g, v1, lambda1, lambda2) ==
    SynthesizeSampleSecondGlottis(e, GlottisStep(g[1], lambda2), v1,
                                  lambda1, lambda2)

SynthesizeSampleVocal2(e, g, v1, lambda1, lambda2) ==
    SynthesizeSampleEnd(e, g, v1, TractStep(v1[1], g[1], g[2], lambda2),
                        lambda1, lambda2)

SynthesizeSampleVocal1(e, g, lambda1, lambda2) ==
    SynthesizeSampleVocal2(e, g, TractStep(e.tract, g[1], g[2], lambda1),
                           lambda1, lambda2)

\* synthesize_block: one turn of the for loop
SynthesizeSample(e, i, len) ==
    SynthesizeSampleVocal1(e, GlottisStep(e.glottis, Lambda1(i, len)),
                           Lambda1(i, len), Lambda2(i, len))

Init ==
    /\ pc = "start"
    /\ new_arg = NoRate
    /\ rng = [seed |-> 1, draws |-> 0]
    /\ sample_rate = NoRate
    /\ shaper = None
    /\ tract = None
    /\ glottis = None
    /\ buf = <<>>
    /\ p = 0
    /\ block = NoBlock
    /\ chunks = <<>>
    /\ calls = 0
    /\ samples = 0
    /\ pushed = 0
    /\ op = "none"
    /\ source = None

(***************************************************************************)
(* The operations.  A call is made while the caller is idle; synthesize     *)
(* runs through its two loops one turn at a time.                           *)
(***************************************************************************)
\* The engine becomes e.
SetEngine(e) ==
    /\ shaper' = e.shaper
    /\ tract' = e.tract
    /\ glottis' = e.glottis

Constructed(e) ==
    /\ shaper' = e.shaper
    /\ tract' = e.tract
    /\ glottis' = e.glottis
    /\ rng' = e.rng

\* PinkTrombone::new(rate, rng, seed)
New(rate, seed) ==
    /\ pc = "start"
    /\ new_arg' = rate
    /\ op' = "new"
    /\ IF NewPanics(rate) \/ TractNewPanics(TractRate(rate))
       THEN /\ pc' = "panic"
            /\ UNCHANGED <<rng, engine_vars>>
       ELSE /\ pc' = "idle"
            /\ sample_rate' = rate
            /\ Constructed(PinkTromboneNew(rate, rng, seed))
    /\ UNCHANGED <<call_vars, calls, samples, pushed, source>>

\* What every call other than synthesize does besides its effect on the
\* engine.
Called(name) ==
    /\ pc = "idle"
    /\ calls' = calls + 1
    /\ op' = name
    /\ UNCHANGED <<pc, new_arg, rng, sample_rate, call_vars, samples, pushed,
                   source>>

SetIntensity(intensity) ==
    /\ Called("set_intensity")
    /\ glottis' = [glottis EXCEPT !.intensity = intensity]
    /\ UNCHANGED <<shaper, tract>>

SetLoudness(loudness) ==
    /\ Called("set_loudness")
    /\ glottis' = [glottis EXCEPT !.loudness = loudness]
    /\ UNCHANGED <<shaper, tract>>

SetTargetFrequency(target_frequency) ==
    /\ Called("set_target_frequency")
    /\ glottis' = [glottis EXCEPT !.target_frequency = target_frequency]
    /\ UNCHANGED <<shaper, tract>>

SetTargetTenseness(target_tenseness) ==
    /\ Called("set_target_tenseness")
    /\ glottis' = [glottis EXCEPT !.target_tenseness = target_tenseness]
    /\ UNCHANGED <<shaper, tract>>

\* A setter that shapes the target diameters for the index it stores.
SetTongueIndexShapes(tongue_index) ==
    /\ Called("set_tongue_index")
    /\ shaper' =
           [shaper EXCEPT
               !.tongue_index = tongue_index,
               !.target_diameter =
                   [i \in Segments |->
                       get_rest_diameter(
                           [shaper EXCEPT !.tongue_index = tongue_index], i)]]
    /\ UNCHANGED <<glottis, tract>>

SetTongueIndex(tongue_index) ==
    /\ Called("set_tongue_index")
    /\ shaper' = [shaper EXCEPT !.tongue_index = tongue_index]
    /\ UNCHANGED <<glottis, tract>>

SetTongueDiameter(tongue_diameter) ==
    /\ Called("set_tongue_diameter")
    /\ shaper' = [shaper EXCEPT !.tongue_diameter = tongue_diameter]
    /\ UNCHANGED <<glottis, tract>>

SetVibratoGain(vibrato_gain) ==
    /\ Called("set_vibrato_gain")
    /\ glottis' = [glottis EXCEPT !.vibrato_amount = vibrato_gain]
    /\ UNCHANGED <<shaper, tract>>

SetVibratoFrequency(vibrato_frequency) ==
    /\ Called("set_vibrato_frequency")
    /\ glottis' = [glottis EXCEPT !.vibrato_frequency = vibrato_frequency]
    /\ UNCHANGED <<shaper, tract>>

SetVibratoWobble(vibrato_wobble) ==
    /\ Called("set_vibrato_wobble")
    /\ glottis' = [glottis EXCEPT !.auto_wobble = vibrato_wobble]
    /\ UNCHANGED <<shaper, tract>>

SetVelumOpen(velum_open) ==
    /\ Called("set_velum_open")
    /\ shaper' = set_velum_open(shaper, velum_open)
    /\ UNCHANGED <<glottis, tract>>

SetMusicalNote(semitone) ==
    /\ Called("set_musical_note")
    /\ glottis' = set_musical_note(glottis, semitone)
    /\ UNCHANGED <<shaper, tract>>

\* turbulence_points().push(point), the point starting now
TurbulencePush(position, diameter) ==
    /\ Called("turbulence_points.push")
    /\ tract' = [tract EXCEPT !.turbulence_points =
                    Append(@, [diameter |-> diameter, position |-> position,
                               start_time |-> tract.time,
                               end_time |-> [nan |-> TRUE, v |-> 0]])]
    /\ UNCHANGED <<glottis, shaper>>

\* turbulence_points().push(point), the point having started at start_time
TurbulencePushAt(position, diameter, start_time) ==
    /\ Called("turbulence_points.push")
    /\ tract' = [tract EXCEPT !.turbulence_points =
                    Append(@, [diameter |-> diameter, position |-> position,
                               start_time |-> start_time,
                               end_time |-> [nan |-> TRUE, v |-> 0]])]
    /\ UNCHANGED <<glottis, shaper>>

\* turbulence_points()[0].end_time = now
TurbulenceEnd ==
    /\ Called("turbulence_points.end")
    /\ tract.turbulence_points # <<>>
    /\ tract' = [tract EXCEPT !.turbulence_points[1].end_time =
                    [nan |-> FALSE, v |-> tract.time]]
    /\ UNCHANGED <<glottis, shaper>>

\* turbulence_points().clear()
TurbulenceClear ==
    /\ Called("turbulence_points.clear")
    /\ tract.turbulence_points # <<>>
    /\ tract' = [tract EXCEPT !.turbulence_points = <<>>]
    /\ UNCHANGED <<glottis, shaper>>

\* PinkTrombone::reset
Reset ==
    /\ pc = "idle"
    /\ calls' = calls + 1
    /\ op' = "reset"
    /\ SetEngine(calculate_new_block_parameters(Engine, 0))
    /\ pushed' = pushed + Len(tract'.transients) - Len(tract.transients)
    /\ UNCHANGED <<pc, new_arg, rng, sample_rate, call_vars, samples, source>>

\* PinkTrombone::synthesize(buf), buf of the given length: up to the loop
SynthesizeCall(len) ==
    /\ pc = "idle"
    /\ calls' = calls + 1
    /\ op' = "synthesize"
    /\ pc' = "synth"
    /\ buf' = [k \in 1 .. len |-> <<>>]
    /\ p' = 0
    /\ block' = NoBlock
    /\ chunks' = <<>>
    /\ UNCHANGED <<new_arg, rng, engine_vars, samples, pushed, source>>

\* synthesize: one turn of the while loop up to the for loop of
\* synthesize_block
SynthesizeBlock ==
    /\ pc = "synth"
    /\ p < Len(buf)
    /\ LET block_len == BlockLen(Len(buf), p)
           delta_time == DeltaTime(block_len, sample_rate)
       IN  /\ SetEngine(calculate_new_block_parameters(Engine, delta_time))
           /\ block' = [NoBlock EXCEPT !.len = block_len,
                                       !.delta_time = delta_time]
           /\ chunks' = Append(chunks, [p |-> p, block_len |-> block_len,
                                        delta_time |-> delta_time,
                                        at |-> samples])
    /\ pushed' = pushed + Len(tract'.transients) - Len(tract.transients)
    /\ pc' = "block"
    /\ UNCHANGED <<new_arg, rng, sample_rate, buf, p, calls, samples, op,
                   source>>

\* The end of a turn of the for loop, s being what the turn computed.  After
\* the last turn synthesize_block returns and synthesize adds block_len to p.
SynthesizeStepEnd(s) ==
    /\ SetEngine(s.engine)
    /\ buf' = [buf EXCEPT ![p + block.i + 1] = Append(@, s.sample)]
    /\ block' = [block EXCEPT !.i = block.i + 1,
                              !.lambda1 = s.lambda1,
                              !.lambda2 = s.lambda2,
                              !.glottal_output = s.glottal_output,
                              !.vocal1 = s.vocal1,
                              !.vocal2 = s.vocal2]

\* synthesize_block: one turn of the for loop
SynthesizeStep ==
    /\ pc = "block"
    /\ block.i < block.len
    /\ SynthesizeStepEnd(SynthesizeSample(Engine, block.i, block.len))
    /\ pc' = IF block.i + 1 = block.len THEN "synth" ELSE "block"
    /\ p' = IF block.i + 1 = block.len THEN p + block.len ELSE p
    /\ samples' = samples + 1
    /\ UNCHANGED <<new_arg, rng, sample_rate, chunks, calls, pushed, op,
                   source>>

\* synthesize: the while loop ends and the call returns
SynthesizeReturn ==
    /\ pc = "synth"
    /\ p >= Len(buf)
    /\ pc' = "idle"
    /\ UNCHANGED <<new_arg, rng, engine_vars, call_vars, calls, samples,
                   pushed, op, source>>

(***************************************************************************)
(* What code of the crate can do besides: the fields diameter, transients   *)
(* and turbulence_points of Tract are public, and so are its operations.     *)
(***************************************************************************)
\* tract.diameter[i] = d for every i of segments
SetDiameter(segments, d) ==
    /\ Called("tract.diameter")
    /\ tract' = [tract EXCEPT !.diameter =
                    [i \in Segments |-> IF i \in segments THEN d ELSE @[i]]]
    /\ UNCHANGED <<glottis, shaper>>

\* tract.calculate_new_block_parameters()
CalculateNewBlockParameters ==
    /\ Called("tract.calculate_new_block_parameters")
    /\ tract' = TractCalculateNewBlockParameters(tract)
    /\ UNCHANGED <<glottis, shaper>>

\* tract.step(glottal_output, lambda)
Step(glottal_output, lambda) ==
    /\ Called("tract.step")
    /\ tract' = TractStep(tract, glottis, glottal_output, lambda)[1]
    /\ UNCHANGED <<glottis, shaper>>

(***************************************************************************)
(* The engine behind its public interface                                   *)
(***************************************************************************)
MaxCalls == 2

\* The sample rates new is called with: 0, a rate of a running engine, and
\* the rates around u32::MAX / 2
SampleRates ==
    {U32_ZERO, U32(0, 2000), U32(Limb \div 2 - 1, Limb - 2), U32_MAX_HALF,
     U32(Limb \div 2, 0), U32_MAX}
Seeds == {9452}
BufferLens == {0, 1, 3}

MayCall == calls < MaxCalls

Next ==
    \/ \E rate \in SampleRates, seed \in Seeds : New(rate, seed)
    \/ \E v \in {Half, Scale} : MayCall /\ SetIntensity(v)
    \/ \E v \in {Half} : MayCall /\ SetLoudness(v)
    \/ \E v \in {Num(220)} : MayCall /\ SetTargetFrequency(v)
    \/ \E v \in {2000} : MayCall /\ SetTargetTenseness(v)
    \/ \E v \in {Num(20)} : MayCall /\ SetTongueIndex(v)
    \/ \E v \in {Num(1)} : MayCall /\ SetTongueDiameter(v)
    \/ \E v \in {0} : MayCall /\ SetVibratoGain(v)
    \/ \E v \in {Num(5)} : MayCall /\ SetVibratoFrequency(v)
    \/ \E v \in BOOLEAN : MayCall /\ SetVibratoWobble(v)
    \/ \E v \in BOOLEAN : MayCall /\ SetVelumOpen(v)
    \/ \E v \in {Num(-12)} : MayCall /\ SetMusicalNote(v)
    \/ \E position \in {225000}, diameter \in {Half} :
           MayCall /\ TurbulencePush(position, diameter)
    \/ MayCall /\ TurbulenceEnd
    \/ MayCall /\ TurbulenceClear
    \/ MayCall /\ Reset
    \/ \E len \in BufferLens : MayCall /\ SynthesizeCall(len)
    \/ SynthesizeBlock
    \/ SynthesizeStep
    \/ SynthesizeReturn

Spec == Init /\ [][Next]_vars

(***************************************************************************)
(* One engine synthesizing into buffers around MAX_BLOCK_LEN                *)
(***************************************************************************)
MaxBlockCalls == 1
BlockLens == {0, 1, MAX_BLOCK_LEN, 2 * MAX_BLOCK_LEN + 1}

NextBlocks ==
    \/ \E seed \in Seeds : New(U32(0, 2000), seed)
    \/ \E len \in BlockLens : calls < MaxBlockCalls /\ SynthesizeCall(len)
    \/ SynthesizeBlock
    \/ SynthesizeStep
    \/ SynthesizeReturn

SpecBlocks == Init /\ [][NextBlocks]_vars

\* A call of synthesize runs on: the loops of synthesize and synthesize_block
\* take their next turn, and the call returns when the outer loop is done.
\* The weak fairness of the turns is written out: a turn is possible exactly
\* when its loop's condition holds, and a step that enters synthesize_block
\* or counts a sample is a turn.
SynthesizeTurnEnabled ==
    \/ pc = "synth" /\ p < Len(buf)
    \/ pc = "block" /\ block.i < block.len

SynthesizeTurnTaken ==
    \/ pc = "synth" /\ pc' = "block"
    \/ pc = "block" /\ samples' = samples + 1

SynthesizeRuns ==
    /\ WF_vars(SynthesizeReturn)
    /\ []<>(~SynthesizeTurnEnabled) \/ []<><<SynthesizeTurnTaken>>_vars

FairSpecBlocks == SpecBlocks /\ SynthesizeRuns

(***************************************************************************)
(* The engine together with code of the crate that closes the tract: at      *)
(* most one change between two calls of synthesize, none after the first     *)
(* MaxEditSample samples                                                     *)
(***************************************************************************)
MaxCrateSamples == 5
MaxEditSample == 2

EditAllowed == samples <= MaxEditSample /\ op \in {"new", "synthesize"}

NextCrate ==
    \/ \E seed \in Seeds : New(U32(0, 16), seed)
    \/ \E segments \in {{30}, {5, 30}} :
           EditAllowed /\ SetDiameter(segments, 0)
    \/ EditAllowed /\ SetDiameter({30}, -Scale)
    \/ EditAllowed /\ SetVelumOpen(TRUE)
    \/ samples < MaxCrateSamples /\ SynthesizeCall(1)
    \/ SynthesizeBlock
    \/ SynthesizeStep
    \/ SynthesizeReturn

SpecCrate == Init /\ [][NextCrate]_vars

\* The caller goes on synthesizing up to the last of the MaxCrateSamples
\* samples, and every call runs on.
FairSpecCrate ==
    /\ SpecCrate
    /\ SynthesizeRuns
    /\ WF_vars(samples < MaxCrateSamples /\ SynthesizeCall(1))

(***************************************************************************)
(* A tract of one diameter throughout, recalculated and stepped by code of  *)
(* the crate                                                                 *)
(***************************************************************************)
MaxUniformCalls == 5
UniformDiameters == {-6000, 0, 5, 7, 8, 15000}

MayCallUniform == op # "new" /\ calls < MaxUniformCalls

NextUniform ==
    \/ \E seed \in Seeds : New(U32(0, 2000), seed)
    \/ \E d \in UniformDiameters : op = "new" /\ SetDiameter(Segments, d)
    \/ MayCallUniform /\ CalculateNewBlockParameters
    \/ \E lambda \in {0, Half} : MayCallUniform /\ Step(1000, lambda)

SpecUniform == Init /\ [][NextUniform]_vars

(***************************************************************************)
(* A tract with up to two turbulence points at full strength (started a     *)
(* second ago), stepped by code of the crate                                *)
(***************************************************************************)
MaxTurbulenceCalls == 4
TurbulencePositions == {20000, 225000, 422500, 430000, 437500, 440000}
TurbulenceDiameters ==
    {2000, 3000, 3200, 3333, 3334, 5000, 5750, 6000, 6500, 7000, 8000}

MayCallTurbulence == pc = "idle" /\ calls < MaxTurbulenceCalls

\* The first point is any, the second the point 22.5 of diameter 0.5.
MayPush(position, diameter) ==
    \/ tract.turbulence_points = <<>>
    \/ /\ Len(tract.turbulence_points) = 1
       /\ position = 225000
       /\ diameter = 5000

NextTurbulence ==
    \/ \E seed \in Seeds : New(U32(0, 2000), seed)
    \/ \E position \in TurbulencePositions, diameter \in TurbulenceDiameters :
           /\ MayCallTurbulence
           /\ MayPush(position, diameter)
           /\ TurbulencePushAt(position, diameter, -Scale)
    \/ MayCallTurbulence /\ Step(1000, 0)

SpecTurbulence == Init /\ [][NextTurbulence]_vars

(***************************************************************************)
(* A filtered noise source of a short loop, built and called by code of the *)
(* crate, beside an engine.  The caller is done with the source before it   *)
(* turns to the engine.                                                     *)
(***************************************************************************)
MaxNoiseCalls == 7
MaxNoiseEngineCalls == 2
LoopSizes == {1, 2, 3}

\* noise::new_filtered_noise_source(1000.0, 0.5, 4000, loop_size, rng)
NewSource(loop_size) ==
    /\ pc \in {"start", "idle"}
    /\ calls = 0
    /\ source = None
    /\ source' = [generator |->
                      new_filtered_noise_source(Num(1000), 5000, U32(0, 4000),
                                                loop_size, rng),
                  k |-> 0]
    /\ rng' = RngAfterSource(loop_size, rng)
    /\ UNCHANGED <<pc, new_arg, engine_vars, call_vars, calls, samples, pushed,
                   op>>

\* One call of the boxed closure new_filtered_noise_source returned
SourceNoise ==
    /\ pc \in {"start", "idle"}
    /\ calls = 0
    /\ source # None
    /\ source.k < MaxNoiseCalls
    /\ source' = [generator |-> FilteredNoise(source.generator)[1],
                  k |-> source.k + 1]
    /\ UNCHANGED <<pc, new_arg, rng, engine_vars, call_vars, calls, samples,
                   pushed, op>>

MayCallNoise ==
    /\ calls < MaxNoiseEngineCalls
    /\ source # None => source.k \in {0, MaxNoiseCalls}

NextNoise ==
    \/ \E seed \in Seeds : New(U32(0, 2000), seed)
    \/ \E loop_size \in LoopSizes : NewSource(loop_size)
    \/ SourceNoise
    \/ MayCallNoise /\ SetIntensity(Half)
    \/ MayCallNoise /\ TurbulencePush(225000, Half)
    \/ MayCallNoise /\ Reset
    \/ \E len \in {1, 2} : MayCallNoise /\ SynthesizeCall(len)
    \/ SynthesizeBlock
    \/ SynthesizeStep
    \/ SynthesizeReturn

SpecNoise == Init /\ [][NextNoise]_vars

(***************************************************************************)
(* An engine of a low sample rate, where a glottal period of 140 Hz is      *)
(* three samples long: the caller changes the target frequency and the      *)
(* loudness between calls of synthesize, and silences the voice so that the *)
(* next recomputation takes the target frequency over at once               *)
(***************************************************************************)
MaxGlottisCalls == 4
MaxGlottisSamples == 12
GlottisFrequencies == {Num(10), Num(230)}

MayCallGlottis == calls < MaxGlottisCalls /\ samples < MaxGlottisSamples

NextGlottis ==
    \/ \E seed \in Seeds : New(U32(0, 400), seed)
    \/ MayCallGlottis /\ SetIntensity(0)
    \/ MayCallGlottis /\ SetLoudness(Half)
    \/ \E v \in GlottisFrequencies : MayCallGlottis /\ SetTargetFrequency(v)
    \/ MayCallGlottis /\ Reset
    \/ \E len \in {3, 7} : MayCallGlottis /\ SynthesizeCall(len)
    \/ SynthesizeBlock
    \/ SynthesizeStep
    \/ SynthesizeReturn

SpecGlottis == Init /\ [][NextGlottis]_vars

(***************************************************************************)
(* An engine synthesizing full chunks from the intensity of the             *)
(* construction or from one the caller has set, below 0 and above 1 too     *)
(***************************************************************************)
MaxIntensityChunks == 8
MaxIntensityCalls == 2
IntensityStarts == {-5000, 5000, Scale, 2 * Scale}

\* The long buffer is for the first call on an engine whose intensity is
\* that of the construction or below 0.
MayCallIntensity(len) ==
    /\ pc = "idle"
    /\ calls < MaxIntensityCalls
    /\ len > 1 => samples = 0 /\ glottis.intensity <= 0

NextIntensity ==
    \/ \E seed \in Seeds : New(U32(0, 2000), seed)
    \/ \E v \in IntensityStarts : calls = 0 /\ SetIntensity(v)
    \/ \E len \in {1, MaxIntensityChunks * MAX_BLOCK_LEN} :
           MayCallIntensity(len) /\ SynthesizeCall(len)
    \/ SynthesizeBlock
    \/ SynthesizeStep
    \/ SynthesizeReturn

SpecIntensity == Init /\ [][NextIntensity]_vars

(***************************************************************************)
(* An engine of a very low sample rate, where a chunk of one sample moves   *)
(* the velum a quarter of its way or more: the caller opens and closes the  *)
(* velum between the calls of synthesize, up to MaxVelumEditSample samples,  *)
(* and goes on synthesizing                                                 *)
(***************************************************************************)
MaxVelumSamples == 8
MaxVelumEditSample == 3

VelumEditAllowed ==
    samples <= MaxVelumEditSample /\ op \in {"new", "synthesize"}

NextVelum ==
    \/ \E seed \in Seeds : New(U32(0, 16), seed)
    \/ \E v \in BOOLEAN : VelumEditAllowed /\ SetVelumOpen(v)
    \/ samples < MaxVelumSamples /\ SynthesizeCall(1)
    \/ SynthesizeBlock
    \/ SynthesizeStep
    \/ SynthesizeReturn

SpecVelum == Init /\ [][NextVelum]_vars

\* The caller goes on synthesizing up to the last of the MaxVelumSamples
\* samples, and every call runs on.
FairSpecVelum ==
    /\ SpecVelum
    /\ SynthesizeRuns
    /\ WF_vars(samples < MaxVelumSamples /\ SynthesizeCall(1))

(***************************************************************************)
(* The properties                                                           *)
(***************************************************************************)
\* new has returned an engine.
Running == pc \in {"idle", "synth", "block"}

\* The part of the buffer the current call of synthesize is done with
Done == IF pc = "block" THEN p + block.i ELSE p

\* What is left of the current call of synthesize: two for each sample to
\* come, the first for the recomputation or the return that is due
Rank == 2 * (Len(buf) - Done) + (IF pc = "synth" THEN 1 ELSE 0)

\* ceil(n / 512)
ChunksOf(n) == (n + 511) \div 512

C1_Chunks ==
    (Running /\ op = "synthesize") =>
        /\ \A k \in 1 .. Len(chunks) :
               /\ chunks[k].p = 512 * (k - 1)
               /\ chunks[k].block_len \in 1 .. 512
               /\ k < Len(chunks) => chunks[k].block_len = 512
               /\ chunks[k].p + chunks[k].block_len <= Len(buf)
               /\ chunks[k].delta_time =
                      DivByRate(Num(chunks[k].block_len), sample_rate)
               /\ chunks[k].at - chunks[1].at = chunks[k].p
        /\ \A j \in 1 .. Len(buf) :
               Len(buf[j]) = IF j <= Done THEN 1 ELSE 0
        /\ pc = "block" =>
               /\ block.i < block.len
               /\ chunks # <<>>
               /\ chunks[Len(chunks)].p = p
               /\ chunks[Len(chunks)].block_len = block.len
               /\ samples = chunks[Len(chunks)].at + block.i
        /\ pc = "synth" =>
               p = IF chunks = <<>> THEN 0
                   ELSE chunks[Len(chunks)].p + chunks[Len(chunks)].block_len
        /\ pc = "idle" =>
               /\ p = Len(buf)
               /\ Len(chunks) = ChunksOf(Len(buf))

C1_Recomputed ==
    /\ Len(chunks') = Len(chunks) + 1 =>
           /\ samples' = samples
           /\ [shaper |-> shaper', tract |-> tract', glottis |-> glottis'] =
                  calculate_new_block_parameters(
                      Engine,
                      DivByRate(Num(Min2(Len(buf) - p, 512)), sample_rate))
    /\ samples' # samples =>
           /\ chunks' = chunks
           /\ shaper' = shaper
           /\ tract'.diameter = tract.diameter
           /\ tract'.nose_diameter = tract.nose_diameter
           /\ tract'.new_reflection = tract.new_reflection
           /\ tract'.reflection = tract.reflection
           /\ glottis'.old_frequency = glottis.old_frequency
           /\ glottis'.new_frequency = glottis.new_frequency
           /\ glottis'.old_tenseness = glottis.old_tenseness
           /\ glottis'.new_tenseness = glottis.new_tenseness
    /\ pc \in {"synth", "block"} => Rank' < Rank

\* C1: synthesize, called with a buffer of any length n, goes through
\* ceil(n / 512) chunks that follow one another from index 0 to n, each of
\* 1 to 512 samples and all but the last of 512; every index of the buffer
\* is written once; the block parameters are recomputed once for each chunk,
\* before its first sample, with delta_time = the chunk's length /
\* sample_rate, and not while the chunk's samples are produced; and the call
\* returns.
C1_Synthesize ==
    /\ []C1_Chunks
    /\ [][C1_Recomputed]_vars
    /\ (pc \in {"synth", "block"}) ~> (pc = "idle")

\* A buffer of 2 * 512 + 1 samples has been synthesized in three chunks.
C1_Witness ==
    /\ pc = "idle"
    /\ op = "synthesize"
    /\ Len(buf) = 2 * MAX_BLOCK_LEN + 1
    /\ Len(chunks) = 3
    /\ chunks[3].block_len = 1
    /\ \A j \in 1 .. Len(buf) : Len(buf[j]) = 1

\* C2: new panics, and leaves no engine, exactly when sample_rate is 0 or
\* sample_rate >= u32::MAX / 2 = 0x7FFF_FFFF; otherwise it returns an engine
\* of that rate whose tract has the rate 2 * sample_rate, a product below
\* 2^32.
C2_NewPanics ==
    op # "none" =>
        LET hi == new_arg[1]
            lo == new_arg[2]
        IN  /\ pc = "panic" <=>
                   \/ (hi = 0 /\ lo = 0)
                   \/ hi > 32767
                   \/ (hi = 32767 /\ lo >= 65535)
            /\ pc = "panic" =>
                   /\ sample_rate = NoRate
                   /\ shaper = None
                   /\ tract = None
                   /\ glottis = None
            /\ pc # "panic" =>
                   /\ Running
                   /\ sample_rate = new_arg
                   /\ glottis.sample_rate = new_arg
                   /\ 2 * hi + (2 * lo) \div 65536 < 65536
                   /\ tract.sample_rate =
                          <<2 * hi + (2 * lo) \div 65536, (2 * lo) % 65536>>

\* new has returned an engine of the greatest rate it takes, 0x7FFF_FFFE.
C2_Witness ==
    /\ pc = "idle"
    /\ new_arg = <<32767, 65534>>
    /\ tract.sample_rate = <<65535, 65532>>

\* One turn of the for loop of synthesize_block, from its parts: g is what
\* the one Glottis step returned, v1 and v2 what the two Tract steps did.
C4_Written(g, v1, v2) ==
    /\ glottis' = g[1]
    /\ tract' = v2[1]
    /\ block'.glottal_output = g[2]
    /\ block'.vocal1 = v1[2]
    /\ block'.vocal2 = v2[2]
    /\ buf'[p + block.i + 1] = <<Mul(v1[2] + v2[2], 1250)>>

C4_SecondStep(g, v1, lambda2) ==
    C4_Written(g, v1, TractStep(v1[1], g[1], g[2], lambda2))

C4_FirstStep(g, lambda1, lambda2) ==
    C4_SecondStep(g, TractStep(tract, g[1], g[2], lambda1), lambda2)

C4_Turn ==
    samples' # samples =>
        /\ block'.lambda1 = Div(Num(block.i), Num(block.len))
        /\ block'.lambda2 = Div(Num(block.i) + 5000, Num(block.len))
        /\ glottis'.sample_count = glottis.sample_count + 1
        /\ tract'.sample_count = tract.sample_count + 2
        /\ C4_FirstStep(GlottisStep(glottis, Div(Num(block.i), Num(block.len))),
                        Div(Num(block.i), Num(block.len)),
                        Div(Num(block.i) + 5000, Num(block.len)))

\* C4: for sample i of a chunk of len samples synthesize computes lambda1 =
\* i / len and lambda2 = (i + 0.5) / len, steps the glottis once, with
\* lambda1, feeds the one excitation to a Tract step with lambda1 and then
\* to a Tract step with lambda2, and writes (vocal1 + vocal2) * 0.125 to
\* index i of the chunk.
C4_OneGlottisStep == [][C4_Turn]_vars

\* A sample of a chunk of 512 has been written from two Tract steps that
\* returned different values.
C4_Witness ==
    /\ pc = "block"
    /\ block.len = MAX_BLOCK_LEN
    /\ block.i = 100
    /\ block.lambda1 = Div(Num(99), Num(512))
    /\ block.vocal1 # block.vocal2
    /\ buf[p + 100] = <<Mul(block.vocal1 + block.vocal2, 1250)>>
    /\ buf[p + 100] # <<0>>
    /\ glottis.sample_count = samples

\* C4 as the specification has it: the glottis is stepped once for each
\* lambda, twice for each sample.
C4_TwoGlottisSteps == Running => glottis.sample_count = 2 * samples

C5_Clocks ==
    Running =>
        /\ tract.sample_count = 2 * samples
        /\ glottis.sample_count = samples
        /\ tract.time = DivByRate(Num(tract.sample_count), tract.sample_rate)
        /\ tract.time = DivByRate(Num(samples), sample_rate)
        /\ tract.time = DivByRate(Num(glottis.sample_count), glottis.sample_rate)

C5_Kept ==
    (Running /\ samples' = samples) =>
        /\ tract'.sample_count = tract.sample_count
        /\ tract'.time = tract.time
        /\ glottis'.sample_count = glottis.sample_count

\* C5: when n samples have been synthesized the tract has made 2n steps and
\* its clock, which time() reports, is 2n / (2 * sample_rate) = n /
\* sample_rate, the same as the glottis's sample counter / sample_rate; a
\* setter or reset advances neither counter nor clock.
C5_Time == []C5_Clocks /\ [][C5_Kept]_vars

\* Three samples later a reset has left the clocks where they were.
C5_Witness ==
    /\ pc = "idle"
    /\ op = "reset"
    /\ sample_rate = <<0, 2000>>
    /\ samples = 3
    /\ tract.sample_count = 6
    /\ tract.time = 15

\* x lies between a and b.
Between(x, a, b) == Min2(a, b) <= x /\ x <= Max2(a, b)

\* calculate_new_block_parameters runs in this step.
Recalculated ==
    \/ pc = "synth" /\ pc' = "block"
    \/ pc = "idle" /\ op' = "reset" /\ calls' = calls + 1

C6_Copied ==
    Recalculated =>
        /\ \A i \in 1 .. N - 1 : tract'.reflection[i] = tract.new_reflection[i]
        /\ tract'.reflection_left = tract.new_reflection_left
        /\ tract'.reflection_right = tract.new_reflection_right
        /\ tract'.reflection_nose = tract.new_reflection_nose

C6_Interpolated ==
    Running =>
        \A lambda \in {0, block.lambda1, block.lambda2} :
            /\ 0 <= lambda
            /\ lambda < Scale
            /\ \A i \in 1 .. N - 1 :
                   /\ Between(interpolate(tract.reflection[i],
                                          tract.new_reflection[i], lambda),
                              tract.reflection[i], tract.new_reflection[i])
                   /\ interpolate(tract.reflection[i], tract.new_reflection[i],
                                  0) = tract.reflection[i]
            /\ Between(interpolate(tract.reflection_left,
                                   tract.new_reflection_left, lambda),
                       tract.reflection_left, tract.new_reflection_left)
            /\ Between(interpolate(tract.reflection_right,
                                   tract.new_reflection_right, lambda),
                       tract.reflection_right, tract.new_reflection_right)
            /\ Between(interpolate(tract.reflection_nose,
                                   tract.new_reflection_nose, lambda),
                       tract.reflection_nose, tract.new_reflection_nose)

\* C6: calculate_new_block_parameters makes the new generation the current
\* one before it computes the next: reflection[i] after the call is
\* new_reflection[i] before it for every junction i of 1 .. N - 1, and so for
\* the left, right and nose coefficients of the nasal junction; the lambdas
\* of a block lie in [0, 1), so that what a step interpolates lies between
\* the two generations and at lambda = 0 is the current one.
C6_Generations == []C6_Interpolated /\ [][C6_Copied]_vars

\* In the second block of an engine the current generation is what the
\* first block computed, and the last sample's lambda2 is 5/6.
C6_Witness ==
    /\ pc = "synth"
    /\ calls = 2
    /\ samples = 4
    /\ block.lambda2 = Div(Num(2) + 5000, Num(3))
    /\ tract.reflection[20] # 0
    /\ tract.reflection[20] = tract.new_reflection[20]
    /\ tract.reflection_nose < 0

\* The nose reflections calculate_nose_reflections gives for the nose
\* diameters of the tract with the open velum's 0.4 in segment 0
C9_OpenVelumReflection(i) ==
    LET a0 == Max2(AreaEpsilon,
                   IF i = 1 THEN 4000 * 4000
                   ELSE tract.nose_diameter[i - 1] * tract.nose_diameter[i - 1])
        a1 == Max2(AreaEpsilon, tract.nose_diameter[i] * tract.nose_diameter[i])
    IN  Div(a0 - a1, a0 + a1)

C9_Computed ==
    Running =>
        /\ tract.nose_reflection[0] = 0
        /\ \A i \in 1 .. NOSE_LEN - 1 :
               tract.nose_reflection[i] = C9_OpenVelumReflection(i)

C9_Kept == Running => tract'.nose_reflection = tract.nose_reflection

\* C9: the nose reflections are what the construction computed from the
\* nose diameters with 0.4, the open velum, in segment 0, and no operation
\* on the engine changes one of them, whatever becomes of nose_diameter[0].
C9_NoseReflections == []C9_Computed /\ [][C9_Kept]_vars

\* The velum has moved from its closed 0.01 towards the open 0.4 while three
\* samples were synthesized.
C9_Witness ==
    /\ pc = "idle"
    /\ samples = 3
    /\ tract.nose_diameter[0] > 100
    /\ tract.nose_diameter[0] < 4000
    /\ tract.nose_reflection[1] = C9_OpenVelumReflection(1)
    /\ tract.nose_reflection[1] # 0

\* The transients of the tract t that process_transients keeps: those whose
\* age does not exceed their life_time
C7_Lives(t, trans) == ~(t.time - trans.start_time > trans.life_time)

C7_Kept(t) == SelectSeq(t.transients, LAMBDA trans : C7_Lives(t, trans))

\* What the transients k .. of the sequence kept add to one wave of segment
\* i: half of strength * 2^(-exponent * age) each
RECURSIVE C7_Injected(_, _, _, _)
C7_Injected(t, kept, i, k) ==
    IF k > Len(kept) THEN 0
    ELSE (IF kept[k].position = i
          THEN Mul(Mul(kept[k].strength,
                       Exp2(Mul(-kept[k].exponent, t.time - kept[k].start_time))),
                   5000)
          ELSE 0)
         + C7_Injected(t, kept, i, k + 1)

\* pt is the tract t after the transients have been processed.
C7_Processed(t, pt) ==
    /\ pt.transients = C7_Kept(t)
    /\ \A i \in Segments :
           /\ pt.right[i] = t.right[i] + C7_Injected(t, C7_Kept(t), i, 1)
           /\ pt.left[i] = t.left[i] + C7_Injected(t, C7_Kept(t), i, 1)
    /\ [pt EXCEPT !.transients = t.transients, !.right = t.right,
                  !.left = t.left] = t

C7_ProcessedAt(t) == C7_Processed(t, process_transients(t))

\* The tract as the second Tract step of the coming sample finds it
C7_SecondStep(g, lambda1) ==
    C7_ProcessedAt(TractStep(tract, g[1], g[2], lambda1)[1])

C7_Steps ==
    Running =>
        /\ C7_ProcessedAt(tract)
        /\ (pc = "block" /\ block.i < block.len) =>
               C7_SecondStep(GlottisStep(glottis, Lambda1(block.i, block.len)),
                             Lambda1(block.i, block.len))
        /\ \A k \in 1 .. Len(tract.transients) :
               tract.time - tract.transients[k].start_time
                   <= tract.transients[k].life_time
                      + DivByRate(Num(1), tract.sample_rate)

\* Over the two Tract steps of a sample: the transients left are those whose
\* age at the second step does not exceed their life_time, in their order.
C7_Sample ==
    samples' # samples =>
        tract'.transients =
            SelectSeq(tract.transients,
                      LAMBDA trans :
                          ~(DivByRate(Num(tract.sample_count + 1),
                                      tract.sample_rate)
                            - trans.start_time > trans.life_time))

\* A transient that started when k samples had been synthesized is in the
\* collection.
C7_Active(k) ==
    /\ Running
    /\ \E j \in 1 .. Len(tract.transients) :
           tract.transients[j].start_time = DivByRate(Num(k), sample_rate)

\* C7: a Tract step removes each transient whose age, the tract's time less
\* its start_time, exceeds its life_time, and such a transient adds nothing
\* to a wave; every other transient stays, in its order, and adds strength *
\* 2^(-exponent * age), one half to right[position] and one half to
\* left[position]; no transient is older than its life_time and one step's
\* time; and as the steps go on a transient is removed (every transient that
\* starts early enough for the samples of this specification to outlast it).
C7_Transients ==
    /\ []C7_Steps
    /\ [][C7_Sample]_vars
    /\ \A k \in 0 .. MaxCrateSamples - 4 : C7_Active(k) ~> ~C7_Active(k)

\* The first of two transients has been removed, the second is still alive.
C7_Witness ==
    /\ pc = "idle"
    /\ pushed = 2
    /\ Len(tract.transients) = 1
    /\ tract.transients[1].position = 30
    /\ tract.right[31] # 0

\* adjust_tract_shape runs in this step.
C8_Adjusted == pc = "synth" /\ pc' = "block"

C8_Release ==
    C8_Adjusted =>
        /\ IF /\ shaper.last_obstruction >= 0
              /\ \A i \in Segments : tract.diameter[i] > 0
              /\ tract.nose_diameter[0] < 2230
           THEN tract'.transients =
                    Append(tract.transients,
                           [position |-> shaper.last_obstruction,
                            start_time |-> tract.time,
                            life_time |-> 2000,
                            strength |-> 3000,
                            exponent |-> 2000000])
           ELSE tract'.transients = tract.transients
        /\ shaper'.last_obstruction >= 0
               <=> \E i \in Segments : tract.diameter[i] <= 0
        /\ shaper'.last_obstruction >= 0 =>
               tract.diameter[shaper'.last_obstruction] <= 0

\* C8: adjust_tract_shape appends one transient if the call before it
\* recorded an obstruction (a segment of diameter <= 0), this call finds no
\* segment of diameter <= 0, and nose_diameter[0] < 0.223: a transient at the
\* recorded index, starting at the tract's time, of life_time 0.2, strength
\* 0.3 and exponent 200.  Otherwise it leaves the transients as they are.
C8_Transient == [][C8_Release]_vars

\* The tract, closed at segment 30, has opened again with the velum closed:
\* the one transient is at segment 30 and started after the first sample.
C8_Witness ==
    /\ pc = "block"
    /\ pushed = 1
    /\ tract.transients = <<[position |-> 30,
                             start_time |-> tract.time,
                             life_time |-> 2000,
                             strength |-> 3000,
                             exponent |-> 2000000]>>
    /\ tract.time > 0
    /\ shaper.last_obstruction = -1

\* Every segment of the tract has the diameter d.
Uniform(d) == \A i \in Segments : tract.diameter[i] = d

\* tract.calculate_new_block_parameters() is this step.
C10_Calculates ==
    op' = "tract.calculate_new_block_parameters" /\ calls' = calls + 1

\* tract.step is this step, and both generations of every interior
\* reflection are 0.
C10_StepsWithoutReflection ==
    /\ op' = "tract.step"
    /\ calls' = calls + 1
    /\ \A i \in 1 .. N - 1 :
           tract.reflection[i] = 0 /\ tract.new_reflection[i] = 0

C10_Recalculated ==
    C10_Calculates =>
        \A d \in UniformDiameters :
            Uniform(d) =>
                \A i \in 1 .. N - 1 :
                    tract'.new_reflection[i] =
                        IF 2 * (d * d) > (Scale * Scale) \div 10^6 THEN 0
                        ELSE Scale

C10_PassedThrough ==
    C10_StepsWithoutReflection =>
        \A i \in (1 .. N - 1) \ {NOSE_START} :
            /\ tract'.junction_output_right[i] = tract.right[i - 1]
            /\ tract'.justion_output_left[i] = tract.left[i]
            /\ tract'.right[i] = Mul(tract.right[i - 1], 9990)
            /\ tract'.left[i - 1] = Mul(tract.left[i], 9990)

\* C10: for a tract whose 44 diameters all are d, with 2 * d^2 > 1e-6,
\* calculate_new_block_parameters gives new_reflection[i] = 0 for every
\* interior junction i of 1 .. N - 1 (and 1.0 for each if 2 * d^2 <= 1e-6, as
\* for d = 0); a Tract step whose two generations of each interior
\* reflection are 0 scatters nothing: but for the nasal junction, each wave
\* moves on one segment with the loss of 0.999 alone.
C10_Uniform == [][C10_Recalculated]_vars /\ [][C10_PassedThrough]_vars

\* A wave has passed the first junctions of a tract of diameter 1.5
\* throughout.
C10_Witness ==
    /\ op = "tract.step"
    /\ Uniform(15000)
    /\ \A i \in 1 .. N - 1 :
           tract.reflection[i] = 0 /\ tract.new_reflection[i] = 0
    /\ tract.right[0] # 0
    /\ tract.right[1] = Mul(tract.junction_output_right[1], 9990)
    /\ tract.right[1] # 0
    /\ tract.right[2] # 0

\* C10 as the specification has it: whatever the one diameter is, every
\* interior new_reflection is 0 after the recalculation.
C10_AnyUniform ==
    [][C10_Calculates =>
           \A d \in UniformDiameters :
               Uniform(d) =>
                   \A i \in 1 .. N - 1 : tract'.new_reflection[i] = 0]_vars

\* The value the looped buffer of the filtered noise source s feeds to the
\* filter at its call k (k = 0, 1, ...): 2u - 1 for the u drawn as number
\* k mod L of the L values of its construction
C11_Input(s, k) ==
    2 * RngValue(rng.seed, s.white_noise.first + (k % s.white_noise.len))
    - Scale

\* The source built on its own has fed the filter, at its last call, the
\* element k mod L, its values are the L drawn at its construction, and its
\* input of L calls before was the same.
C11_Fed ==
    source # None =>
        LET s == source.generator
            L == s.white_noise.len
        IN  /\ L \in LoopSizes
            /\ s.white_noise.first + L <= rng.draws
            /\ s.white_noise.first \in {0, 2 * 32768}
            /\ source.k > 0 =>
                   /\ s.filter.x1 = C11_Input(s, source.k - 1)
                   /\ s.white_noise.current_index = ((source.k - 1) % L) + 1
            /\ source.k > 1 => s.filter.x2 = C11_Input(s, source.k - 2)
            /\ source.k > L =>
                   C11_Input(s, source.k - 1) = C11_Input(s, source.k - 1 - L)

\* The two sources of an engine: the Glottis's holds the first 0x8000 values
\* drawn by new, the Tract's the next 0x8000; the Glottis's has been called
\* once for each sample, the Tract's at most once for each turbulence point
\* in each of the two Tract steps of a sample.
C11_Engine ==
    Running =>
        LET a == glottis.aspiration_noise_source
            f == tract.frication_noise_source
        IN  /\ a.white_noise.len = 32768
            /\ f.white_noise.len = 32768
            /\ f.white_noise.first = a.white_noise.first + 32768
            /\ f.white_noise.first + 32768 <= rng.draws
            /\ a.white_noise.current_index = samples
            /\ samples > 0 => a.filter.x1 = C11_Input(a, samples - 1)
            /\ f.white_noise.current_index
                   <= 2 * samples * Len(tract.turbulence_points)
            /\ f.white_noise.current_index > 0 =>
                   f.filter.x1 = C11_Input(f, f.white_noise.current_index - 1)

\* The draws of a step: L at the construction of a source of loop_size L,
\* 2 * 0x8000 at new, none at any other step.
C11_Draws ==
    /\ rng'.seed = rng.seed
    /\ rng'.draws =
           IF source = None /\ source' # None
           THEN rng.draws + source'.generator.white_noise.len
           ELSE IF pc = "start" /\ pc' = "idle"
           THEN rng.draws + 2 * 32768
           ELSE rng.draws
    /\ (source = None /\ source' # None) =>
           source'.generator.white_noise.first = rng.draws
    /\ (pc = "start" /\ pc' = "idle") =>
           glottis'.aspiration_noise_source.white_noise.first = rng.draws

\* C11: a filtered noise source built with loop_size L draws exactly L values
\* from the NoiseSource at its construction and none later; its call k (k =
\* 0, 1, ...) feeds the filter 2u - 1 for u the value k mod L of those drawn,
\* so that its white noise has the period L.  PinkTrombone::new draws 2 *
\* 0x8000 values, the Glottis's 0x8000 first and the Tract's after them, and
\* synthesize, the setters and reset draw none.
C11_Noise == []C11_Fed /\ []C11_Engine /\ [][C11_Draws]_vars

\* A source of loop_size 3, built after an engine, has started over twice,
\* and the engine has synthesized two samples since.
C11_Witness ==
    /\ source # None
    /\ source.generator.white_noise.len = 3
    /\ source.generator.white_noise.first = 2 * 32768
    /\ source.k = 7
    /\ source.generator.white_noise.current_index = 1
    /\ rng.draws = 2 * 32768 + 3
    /\ pc = "idle"
    /\ samples = 2
    /\ glottis.aspiration_noise_source.filter.x1 # 0

\* The segments of the tract that are closed: of diameter <= 0
C13_Closed == {i \in Segments : tract.diameter[i] <= 0}

C13_Highest ==
    IF C13_Closed = {} THEN -1
    ELSE CHOOSE i \in C13_Closed : \A j \in C13_Closed : j <= i

C13_Lowest ==
    IF C13_Closed = {} THEN -1
    ELSE CHOOSE i \in C13_Closed : \A j \in C13_Closed : i <= j

C13_Recorded ==
    Recalculated =>
        /\ shaper'.last_obstruction = C13_Highest
        /\ Len(tract'.transients) > Len(tract.transients) =>
               /\ shaper.last_obstruction >= 0
               /\ tract'.transients[Len(tract'.transients)].position
                      = shaper.last_obstruction

\* C13: after each adjust_tract_shape the recorded obstruction is the
\* highest index i of 0 .. N - 1 whose diameter, as the call found it, is
\* <= 0, and -1 if there is none; the transient a later call injects at the
\* release is at the index recorded by the call before it.
C13_LastObstruction == [][C13_Recorded]_vars

\* Of the closed segments 5 and 30 the call has recorded 30; both are on
\* their way back to their targets.
C13_Witness ==
    /\ pc = "block"
    /\ shaper.last_obstruction = 30
    /\ tract.diameter[5] > 0
    /\ tract.diameter[5] < shaper.target_diameter[5]
    /\ tract.diameter[30] > 0
    /\ tract.diameter[30] < shaper.target_diameter[30]
    /\ tract.transients = <<>>

\* C13 as the specification has it: the recorded obstruction is the lowest
\* closed index.
C13_LowestObstruction ==
    [][Recalculated => shaper'.last_obstruction = C13_Lowest]_vars

\* The thinness and the openness of a point of diameter d: 1 up to 0.575 and
\* 0 from 0.7 on, 8 * (0.7 - d) between; 0 up to 0.3 and 1 from 1/3 on,
\* 30 * (d - 0.3) between
C15_Thinness(d) ==
    IF d <= 5750 THEN Scale ELSE IF d >= 7000 THEN 0 ELSE 8 * (7000 - d)

C15_Openness(d) ==
    IF d <= 3000 THEN 0
    ELSE IF 3 * d >= Scale THEN Scale
    ELSE 30 * (d - 3000)

\* What the noise <<turbulence_noise, position, diameter>> adds to a wave of
\* the segment idx, if the two segments it is split over are first and
\* first + 1: one half of the fraction 1 - d of the scaled noise for the
\* former and of the fraction d for the latter, d = position - floor(position)
C14_Share(noise, idx, first) ==
    LET d == noise[2] - (noise[2] \div Scale) * Scale
        Weighted(w) ==
            Mul(Mul(Mul(Mul(noise[1], w), C15_Thinness(noise[3])),
                    C15_Openness(noise[3])),
                5000)
    IN  IF idx = first THEN Weighted(Scale - d)
        ELSE IF idx = first + 1 THEN Weighted(d)
        ELSE 0

RECURSIVE C14_Sum(_, _, _, _)
C14_Sum(noises, idx, offset, k) ==
    IF k > Len(noises) THEN 0
    ELSE C14_Share(noises[k], idx, noises[k][2] \div Scale + offset)
         + C14_Sum(noises, idx, offset, k + 1)

\* The tract t with the noises of its turbulence points in, each split over
\* the segments floor(position) + offset and the next
C14_Split(t, c, offset) ==
    [t EXCEPT
        !.frication_noise_source = c[1],
        !.right = [idx \in Segments |->
                      t.right[idx] + C14_Sum(c[2], idx, offset, 1)],
        !.left = [idx \in Segments |->
                     t.left[idx] + C14_Sum(c[2], idx, offset, 1)]]

C14_Injected(t, offset) ==
    C14_Split(t, CollectTurbulence(t, glottis, 1, t.frication_noise_source,
                                   <<>>),
              offset)

\* The tract as the next Tract step finds it gets the noise of each point
\* in the segments floor(position) + 1 and floor(position) + 2, as far as
\* they are segments of the tract.
C14_NextStep ==
    Running =>
        /\ add_turbulence_noise(process_transients(tract), glottis)
               = C14_Injected(process_transients(tract), 1)
        /\ \A k \in 1 .. Len(tract.turbulence_points) :
               /\ tract.turbulence_points[k].position >= Num(2)
               /\ tract.turbulence_points[k].position <= Num(N)

\* A Tract step scatters the waves so injected.
C14_Stepped ==
    (op' = "tract.step" /\ calls' = calls + 1) =>
        tract' = TractStepJunctions(C14_Injected(process_transients(tract), 1),
                                    1000, 0)[1]

\* C14: for an active turbulence point at the position p (2 <= p <= N) with
\* i = floor(p) and d = p - i the scaled noise is split with the weights
\* 1 - d and d, which sum to 1: the fraction 1 - d goes to the segment i + 1
\* if i + 1 < N and the fraction d to the segment i + 2 if i + 2 < N, each
\* one half to the rightward and one half to the leftward wave; no other
\* segment is changed and no index outside 0 .. N - 1 is written.
C14_Turbulence == []C14_NextStep /\ [][C14_Stepped]_vars

\* A step has injected the noise of a point at 22.5 into the segments 23 and
\* 24: the waves have moved on to 24 and 25 rightward and to 22 and 23
\* leftward, and no wave comes from segment 22.
C14_Witness ==
    /\ op = "tract.step"
    /\ calls = 2
    /\ Len(tract.turbulence_points) = 1
    /\ tract.turbulence_points[1].position = 225000
    /\ tract.turbulence_points[1].diameter = 5000
    /\ tract.right[24] # 0
    /\ tract.right[25] # 0
    /\ tract.right[23] = 0
    /\ tract.left[23] # 0
    /\ tract.left[22] # 0
    /\ tract.left[21] = 0

\* C14 as the specification has it: the two segments are floor(p) and
\* floor(p) + 1, those on either side of the point.
C14_Straddling ==
    Running =>
        add_turbulence_noise(process_transients(tract), glottis)
            = C14_Injected(process_transients(tract), 0)

\* The next Tract step changes a wave of the tract.
C15_Injects ==
    \E idx \in Segments :
        \/ add_turbulence_noise(tract, glottis).right[idx] # tract.right[idx]
        \/ add_turbulence_noise(tract, glottis).left[idx] # tract.left[idx]

GlottisSteps == pc = "block" /\ samples' = samples + 1
PeriodOver == glottis.time_in_waveform > glottis.waveform_length

\* The time in the waveform the step taken evaluated the waveform at
C16_At == glottis'.time_in_waveform - DivByRate(Scale, glottis'.sample_rate)

\* The seven parameters of the LF waveform
LFParameters(g) == <<g.alpha, g.e0, g.epsilon, g.shift, g.delta, g.te, g.omega>>

C16_Evaluated ==
    GlottisSteps =>
        /\ C16_At >= 0
        /\ C16_At <= glottis'.waveform_length
        /\ Div(C16_At, glottis'.waveform_length) \in 0 .. Scale
        /\ C16_At = IF PeriodOver
                    THEN glottis.time_in_waveform - glottis.waveform_length
                    ELSE glottis.time_in_waveform
        /\ PeriodOver =>
               /\ glottis'.waveform_length =
                      Div(Scale, interpolate(glottis.old_frequency,
                                             glottis.new_frequency,
                                             Lambda1(block.i, block.len)))
               /\ LFParameters(glottis') =
                      LFParameters(setup_waveform(glottis,
                                                  Lambda1(block.i, block.len)))
        \* the sample is that of the waveform as the step leaves it
        /\ block'.glottal_output =
               GlottisStepWaveform(
                   [glottis' EXCEPT
                       !.time_in_waveform = C16_At,
                       !.sample_count = glottis.sample_count,
                       !.aspiration_noise_source =
                           glottis.aspiration_noise_source],
                   DivByRate(Num(glottis.sample_count), glottis.sample_rate))[2]

\* The frequencies of a block lie between 10 Hz and the sample rate.
C16_Schedule ==
    Running =>
        /\ glottis.old_frequency >= Num(10)
        /\ glottis.new_frequency >= Num(10)
        /\ U32Ge(sample_rate, U32(0, glottis.old_frequency \div Scale + 1))
        /\ U32Ge(sample_rate, U32(0, glottis.new_frequency \div Scale + 1))

\* C16: every Glottis step evaluates the LF waveform at a phase
\* time_in_waveform / waveform_length in [0, 1]: where the time in the
\* period exceeds the period length the step subtracts the period length and
\* computes the period length and the LF parameters anew, from the
\* frequency and the tenseness interpolated at lambda, before it evaluates
\* the waveform; so for every schedule of frequencies between 10 Hz and the
\* sample rate, jumps between two periods included.
C16_Phase == []C16_Schedule /\ [][C16_Evaluated]_vars

\* The period of 140 Hz the construction set up is over and the next one
\* has begun at more than twice the frequency: the step wrapped the phase
\* into the shorter period.
C16_Witness ==
    /\ pc = "block"
    /\ samples = 4
    /\ glottis.old_frequency > Num(280)
    /\ glottis.waveform_length < 35
    /\ glottis.waveform_length >= 25
    /\ glottis.time_in_waveform = 4 * 25 - 71
    /\ glottis.time_in_waveform - 25 <= glottis.waveform_length

\* A step that finds the period over gives loudness the fourth root of the
\* interpolated tenseness; any other step leaves it, the period length and
\* the LF parameters alone.
C20_Step ==
    GlottisSteps =>
        IF PeriodOver
        THEN glottis'.loudness =
                 Sqrt(Sqrt(Max2(interpolate(glottis.old_tenseness,
                                            glottis.new_tenseness,
                                            Lambda1(block.i, block.len)),
                                0)))
        ELSE /\ glottis'.loudness = glottis.loudness
             /\ glottis'.waveform_length = glottis.waveform_length
             /\ LFParameters(glottis') = LFParameters(glottis)

\* What is not a Glottis step changes loudness only by set_loudness and by
\* the construction, which sets the waveform up for the tenseness 0.6.
C20_Call ==
    ~GlottisSteps =>
        IF op' = "set_loudness" /\ calls' = calls + 1
        THEN glottis'.loudness = Half
        ELSE IF pc = "start"
        THEN pc' = "idle" => glottis'.loudness = Sqrt(Sqrt(6000))
        ELSE glottis'.loudness = glottis.loudness

\* C20: loudness keeps the value given to set_loudness only until the next
\* period wrap: the construction and every Glottis step that wraps the
\* period overwrite it with max(tenseness, 0) ^ 0.25 of the interpolated
\* tenseness, and a Glottis step that does not wrap leaves loudness, the
\* period length and the seven LF parameters unchanged.
C20_Loudness == [][C20_Step]_vars /\ [][C20_Call]_vars

\* Three steps have left the loudness at the value set_loudness gave; the
\* period is over, and the step due overwrites the value.
C20_Witness ==
    /\ pc = "block"
    /\ block.i = 3
    /\ block.i < block.len
    /\ samples = 3
    /\ glottis.loudness = Half
    /\ PeriodOver
    /\ GlottisStep(glottis, Lambda1(block.i, block.len))[1].loudness > Scale

\* synthesize is in its loops, and the step taken is the recomputation at
\* the head of a chunk.
Synthesizing == pc \in {"synth", "block"}
ChunkBegins == pc = "synth" /\ pc' = "block"

\* The chunks so far of the current call are n or more, the first n full.
FullChunks(n) ==
    /\ Synthesizing
    /\ Len(chunks) >= n
    /\ \A k \in 1 .. n : chunks[k].block_len = MAX_BLOCK_LEN

\* The recomputation of a chunk of len samples adds 0.13 * len / 512 and
\* clamps; nothing else in synthesize changes the intensity.
C17_Adjusted ==
    /\ ChunkBegins =>
           /\ glottis'.intensity =
                  Clamp(glottis.intensity
                            + Mul(1300, (Num(block'.len) + 256) \div 512),
                        0, Scale)
           /\ glottis'.intensity \in 0 .. Scale
    /\ (Synthesizing /\ ~ChunkBegins) =>
           glottis'.intensity = glottis.intensity

\* During synthesize an intensity of at most 1 does not decrease.
C17_Raised ==
    (Synthesizing /\ glottis.intensity <= Scale) =>
        glottis'.intensity >= glottis.intensity

\* Eight full chunks from an intensity of 0 or more end at 1: synthesize is
\* the first call on the engine, whose intensity is the 0 of the
\* construction, or the intensity has been 1 before.
C17_Full ==
    (FullChunks(8) /\ calls = 1) => glottis.intensity = Scale

C17_Stays ==
    (Synthesizing /\ glottis.intensity = Scale) => glottis'.intensity = Scale

\* C17: after every recomputation at the head of a chunk the intensity lies
\* in [0, 1], whatever number set_intensity stored before.  Always voiced,
\* the engine sets the intensity to clamp(intensity + 0.13 * len / 512, 0, 1)
\* at each chunk of len samples, so from a starting value of 0 or more the
\* intensity is 1 within 8 full chunks of 512 samples and stays 1 while
\* set_intensity is not called; during synthesize the intensity does not
\* decrease unless the stored value was above 1.
C17_Intensity ==
    /\ [][C17_Adjusted]_vars
    /\ [][C17_Raised]_vars
    /\ [][C17_Stays]_vars
    /\ []C17_Full

\* The first full chunk from the intensity 0 of the construction has begun:
\* its recomputation has added 0.13.
C17_Witness ==
    /\ pc = "block"
    /\ calls = 1
    /\ op = "synthesize"
    /\ FullChunks(1)
    /\ Len(chunks) = 1
    /\ block.i = 1
    /\ glottis.intensity = 1300

\* C17 as the specification has it: from any starting value the intensity
\* is 1 within 8 full chunks, and it never decreases during synthesize.
C17_AnyStart ==
    /\ [](FullChunks(8) => glottis.intensity = Scale)
    /\ [][Synthesizing => glottis'.intensity >= glottis.intensity]_vars

\* The velum opening and its target
Velum == tract.nose_diameter[0]
VelumTarget == shaper.velum_target

\* The recomputation at the head of a chunk moves the velum opening toward
\* the target by 0.25 * amount where it opens and by 0.1 * amount where it
\* closes, amount = delta_time * 15, or up to the target where that is
\* nearer; nothing else moves it.
C18_Moved ==
    LET amount == Mul(block'.delta_time, 150000)
        velum == tract'.nose_diameter[0]
    IN  /\ ChunkBegins =>
               /\ amount > 0
               /\ Velum < VelumTarget =>
                      /\ velum > Velum
                      /\ velum <= VelumTarget
                      /\ velum - Velum <= Mul(amount, 2500)
                      /\ velum = VelumTarget \/ velum - Velum = Mul(amount, 2500)
               /\ Velum > VelumTarget =>
                      /\ velum < Velum
                      /\ velum >= VelumTarget
                      /\ Velum - velum <= Mul(amount, 1000)
                      /\ velum = VelumTarget \/ Velum - velum = Mul(amount, 1000)
               /\ Velum = VelumTarget => velum = Velum
        /\ (Running /\ ~ChunkBegins) => velum = Velum

\* The target is that of the flag last set, closed after the construction,
\* and the opening lies between the two targets.
C18_Within ==
    Running =>
        /\ VelumTarget \in {100, 4000}
        /\ Velum >= 100
        /\ Velum <= 4000
        /\ (calls = 0 /\ samples = 0) => (Velum = 100 /\ VelumTarget = 100)

C18_Set ==
    (op' = "set_velum_open" /\ calls' = calls + 1) =>
        /\ shaper'.velum_target \in {100, 4000}
        /\ tract' = tract

\* C18: each adjust_tract_shape moves the velum opening nose_diameter[0]
\* toward the velum target (0.4 open, 0.01 closed) by at most 0.25 * amount
\* when it opens and 0.1 * amount when it closes, amount = delta_time * 15,
\* and never past the target; so the opening, 0.01 after the construction,
\* stays within [0.01, 0.4] under any calls of set_velum_open and
\* synthesize, and while the flag is left alone and synthesis goes on it
\* reaches the target after finitely many chunks and stays there.
C18_Velum ==
    /\ []C18_Within
    /\ [][C18_Moved]_vars
    /\ [][C18_Set]_vars
    /\ \A v \in {100, 4000} :
           (Running /\ VelumTarget = v)
               ~> (Running /\ (VelumTarget # v \/ Velum = v))
    /\ [][(Running /\ Velum = VelumTarget /\ shaper'.velum_target = VelumTarget)
              => tract'.nose_diameter[0] = VelumTarget]_vars

\* The velum was opened, then closed when it was wide open; four chunks have
\* moved it down by 0.1 * amount each, the fifth the rest of the way.
C18_Witness ==
    /\ pc = "idle"
    /\ op = "synthesize"
    /\ samples = 7
    /\ VelumTarget = 100
    /\ Velum = 100
    /\ calls = 9

\* The rest diameter of segment i for the tongue of the construction, index
\* 12.9 and diameter 2.43
C19_Rest(i) ==
    get_rest_diameter([tongue_index |-> 129000, tongue_diameter |-> 24300], i)

\* The reflection coefficient of the junction i of a tract of these
\* diameters
C19_Reflection(i) ==
    Div(sqr(C19_Rest(i - 1)) - sqr(C19_Rest(i)),
        sqr(C19_Rest(i - 1)) + sqr(C19_Rest(i)))

C19_Shape ==
    Running =>
        /\ \A i \in Segments :
               /\ tract.diameter[i] = shaper.target_diameter[i]
               /\ tract.diameter[i] = C19_Rest(i)
               /\ tract.diameter[i] > 0
        /\ shaper.last_obstruction = -1
        /\ tract.transients = <<>>
        /\ pushed = 0

\* The two setters store their argument and change nothing else.
C19_Stored ==
    /\ (op' = "set_tongue_index" /\ calls' = calls + 1) =>
           /\ shaper' = [shaper EXCEPT !.tongue_index = shaper'.tongue_index]
           /\ shaper'.tongue_index = Num(20)
           /\ tract' = tract
    /\ (op' = "set_tongue_diameter" /\ calls' = calls + 1) =>
           /\ shaper' = [shaper EXCEPT
                             !.tongue_diameter = shaper'.tongue_diameter]
           /\ shaper'.tongue_diameter = Num(1)
           /\ tract' = tract

C19_Recalculated ==
    Recalculated =>
        \A i \in 1 .. N - 1 : tract'.new_reflection[i] = C19_Reflection(i)

\* C19: the target diameters are computed once, in the construction, from
\* the tongue index 12.9 and the tongue diameter 2.43; set_tongue_index and
\* set_tongue_diameter change only the field they store.  So under the
\* calls of the public interface every diameter of the main tract equals
\* its target and its value of the construction, which is positive, no
\* obstruction is recorded, the collection of transients stays empty, and
\* every recomputation gives the same reflection coefficients.
C19_Diameters ==
    []C19_Shape /\ [][C19_Stored]_vars /\ [][C19_Recalculated]_vars

\* The tongue index has been set to 20 and three samples synthesized: the
\* diameters are those of the tongue index 12.9 still.
C19_Witness ==
    /\ pc = "idle"
    /\ op = "synthesize"
    /\ samples = 3
    /\ shaper.tongue_index = Num(20)
    /\ tract.diameter[20] = C19_Rest(20)
    /\ tract.diameter[20] # get_rest_diameter(shaper, 20)
    /\ tract.new_reflection[20] = C19_Reflection(20)

====
